---- MODULE Spec2Model ----
(***************************************************************************)
(* A model of pas_zip.h, the single-header in-memory ZIP reader/writer.    *)
(*                                                                         *)
(* Buffers are sequences of bytes (0..255); the C offset k of a buffer is  *)
(* element k+1 of the sequence.  The three file-scope statics of the       *)
(* implementation (pas_zip__handle, pas_zip__current_file and              *)
(* pas_zip__name_buf) are variables; the pointers the API hands back to    *)
(* the caller (zip, file) always designate those statics.                  *)
(***************************************************************************)
EXTENDS Integers, Sequences, FiniteSets, TLC

(***************************************************************************)
(* Program constants.                                                      *)
(***************************************************************************)
PAS_ZIP_OK == 0
PAS_ZIP_E_INVALID == -1
PAS_ZIP_E_NOT_FOUND == -2
PAS_ZIP_E_COMPRESSED == -3
PAS_ZIP_E_NOSPACE == -4
PAS_ZIP_E_ZLIB == -5

PAS_ZIP_METHOD_STORE == 0
PAS_ZIP_METHOD_DEFLATE == 8

\* 0x06054b50, 0x02014b50, 0x04034b50
PAS_ZIP_EOCD_SIG == 101010256
PAS_ZIP_CDH_SIG == 33639248
PAS_ZIP_LFH_SIG == 67324752

\* sizeof(pas_zip__name_buf)
NAME_BUF_SIZE == 512
\* fixed sizes of the end record, the central-directory header, the local header
EOCD_SIZE == 22
CDH_SIZE == 46
LFH_SIZE == 30
\* 22-byte trailer + 65535-byte comment: the backward search window
EOCD_WINDOW == 65557

U8 == 256
U16 == 65536
\* 2^15: a 32-bit value whose high half is below it is below 2^31
HALF16 == 32768

NULL == "NULL"

(***************************************************************************)
(* Byte-level helpers.                                                     *)
(***************************************************************************)
\* data[i] for a C offset i inside the buffer
ByteAt(data, i) == data[i + 1]

read_u16_le(data, i) == ByteAt(data, i) + U8 * ByteAt(data, i + 1)

(***************************************************************************)
(* 32-bit unsigned values.  The checker's integers stop at 2^31 - 1, so a  *)
(* uint32_t (and a size_t that was assigned from one) is a pair [hi, lo]   *)
(* of 16-bit halves, value hi * 2^16 + lo.  Buffer sizes and indices are   *)
(* plain integers (every buffer of the model is far shorter than 2^31).    *)
(***************************************************************************)
\* (uint32_t)x for an integer 0 <= x < 2^31
ToU32(x) == [hi |-> (x \div U16) % U16, lo |-> x % U16]

\* the integer a 32-bit value stands for, when that is below 2^31
Val(w) == w.hi * U16 + w.lo

\* w + k in uint32_t arithmetic (wraps at 2^32), for an integer 0 <= k < 2^31
Add32(w, k) ==
    LET lo == w.lo + (k % U16)
        hi == w.hi + (k \div U16) + (lo \div U16)
    IN  [hi |-> hi % U16, lo |-> lo % U16]

\* w > n, w >= n, w < n for a 32-bit value w and an integer 0 <= n < 2^31
GtW(w, n) == w.hi >= HALF16 \/ Val(w) > n
GeW(w, n) == w.hi >= HALF16 \/ Val(w) >= n
LtW(w, n) == ~GeW(w, n)

read_u32_le(data, i) ==
    [hi |-> ByteAt(data, i + 2) + U8 * ByteAt(data, i + 3),
     lo |-> ByteAt(data, i) + U8 * ByteAt(data, i + 1)]

\* the signature constants as 32-bit values
Sig(x) == ToU32(x)

\* the (uint8_t)(x), (uint8_t)(x>>8), ... stores of the writer
LE16(x) == << x % U8, (x \div U8) % U8 >>
LE32W(w) == LE16(w.lo) \o LE16(w.hi)
LE32(x) == LE32W(ToU32(x))

Zeros(n) == [k \in 1..n |-> 0]

\* memcpy(dst + at, src, Len(src)) into a region of Len(mem) bytes; bytes
\* that fall beyond the region are not part of mem
Store(mem, at, src) ==
    [k \in 1..Len(mem) |->
        IF k > at /\ k <= at + Len(src) THEN src[k - at] ELSE mem[k]]

\* the C string that starts at s[1]: the bytes before the first NUL
CStr(s) ==
    IF \E k \in 1..Len(s) : s[k] = 0
    THEN SubSeq(s, 1, (CHOOSE k \in 1..Len(s) :
                          s[k] = 0 /\ \A j \in 1..(k - 1) : s[j] # 0) - 1)
    ELSE s

Min(a, b) == IF a < b THEN a ELSE b
Max(a, b) == IF a > b THEN a ELSE b

(***************************************************************************)
(* find_eocd: the backward scan for the end-of-central-directory record.   *)
(***************************************************************************)
\* [found, cd_offset, num_entries, at]: the for-loop from position i down;
\* at is the position of the signature the loop stopped at, -1 if none.
\* found = 0 also when the record at the first signature met declares
\* cd_offset >= size.
\* The for-loop examines the positions size - 22 down to search_end and
\* stops at the first that holds the signature: the highest such position.
\* EocdScan is the set of positions examined when none holds it.
search_end(size) == IF size > EOCD_WINDOW THEN size - EOCD_WINDOW ELSE 0

EocdScan(size) == search_end(size)..(size - EOCD_SIZE)

\* find_eocd scanning down to position 0 whatever the size
Mut_find_eocd_NoFloor(data, size) ==
    IF size < EOCD_SIZE
    THEN [found |-> 0, cd_offset |-> 0, num_entries |-> 0, at |-> -1,
          low |-> -1]
    ELSE LET hits == { i \in 0..(size - EOCD_SIZE) :
                         read_u32_le(data, i) = Sig(PAS_ZIP_EOCD_SIG) }
         IN  IF hits = {}
             THEN [found |-> 0, cd_offset |-> 0, num_entries |-> 0, at |-> -1,
                   low |-> 0]
             ELSE LET i == CHOOSE h \in hits : \A g \in hits : g <= h
                      n == read_u16_le(data, i + 8)
                      c == read_u32_le(data, i + 16)
                  IN  IF GeW(c, size)
                      THEN [found |-> 0, cd_offset |-> 0, num_entries |-> n,
                            at |-> i, low |-> i]
                      ELSE [found |-> 1, cd_offset |-> Val(c), num_entries |-> n,
                            at |-> i, low |-> i]

\* find_eocd without the cd_offset >= size rejection
Mut_find_eocd_NoBound(data, size) ==
    IF size < EOCD_SIZE
    THEN [found |-> 0, cd_offset |-> 0, num_entries |-> 0, at |-> -1,
          low |-> -1]
    ELSE LET hits == { i \in EocdScan(size) :
                         read_u32_le(data, i) = Sig(PAS_ZIP_EOCD_SIG) }
         IN  IF hits = {}
             THEN [found |-> 0, cd_offset |-> 0, num_entries |-> 0, at |-> -1,
                   low |-> search_end(size)]
             ELSE LET i == CHOOSE h \in hits : \A g \in hits : g <= h
                  IN  [found |-> 1, cd_offset |-> Val(read_u32_le(data, i + 16)),
                       num_entries |-> read_u16_le(data, i + 8), at |-> i,
                       low |-> i]

\* find_eocd comparing only the "PK" half of the signature
Mut_find_eocd_LooseSig(data, size) ==
    IF size < EOCD_SIZE
    THEN [found |-> 0, cd_offset |-> 0, num_entries |-> 0, at |-> -1,
          low |-> -1]
    ELSE LET hits == { i \in EocdScan(size) :
                         read_u16_le(data, i) = Sig(PAS_ZIP_EOCD_SIG).lo }
         IN  IF hits = {}
             THEN [found |-> 0, cd_offset |-> 0, num_entries |-> 0, at |-> -1,
                   low |-> search_end(size)]
             ELSE LET i == CHOOSE h \in hits : \A g \in hits : g <= h
                      n == read_u16_le(data, i + 8)
                      c == read_u32_le(data, i + 16)
                  IN  IF GeW(c, size)
                      THEN [found |-> 0, cd_offset |-> 0, num_entries |-> n,
                            at |-> i, low |-> i]
                      ELSE [found |-> 1, cd_offset |-> Val(c), num_entries |-> n,
                            at |-> i, low |-> i]

\* [found, cd_offset, num_entries, at, low]: at is the position of the
\* signature the loop stopped at, -1 if it met none; low is the lowest
\* position the loop examined, -1 if it examined none.  found = 0 also when
\* the record at that position declares cd_offset >= size.
find_eocd(data, size) ==
    IF size < EOCD_SIZE
    THEN [found |-> 0, cd_offset |-> 0, num_entries |-> 0, at |-> -1,
          low |-> -1]
    ELSE LET hits == { i \in EocdScan(size) :
                         read_u32_le(data, i) = Sig(PAS_ZIP_EOCD_SIG) }
         IN  IF hits = {}
             THEN [found |-> 0, cd_offset |-> 0, num_entries |-> 0, at |-> -1,
                   low |-> search_end(size)]
             ELSE LET i == CHOOSE h \in hits : \A g \in hits : g <= h
                      n == read_u16_le(data, i + 8)
                      c == read_u32_le(data, i + 16)
                  IN  IF GeW(c, size)
                      THEN [found |-> 0, cd_offset |-> 0, num_entries |-> n,
                            at |-> i, low |-> i]
                      ELSE [found |-> 1, cd_offset |-> Val(c), num_entries |-> n,
                            at |-> i, low |-> i]

(***************************************************************************)
(* parse_cd_entry: one central-directory record at offset p of the archive *)
(* (the C pointers p and end are the offsets p and size).  name_buf is     *)
(* pas_zip__name_buf on entry.  On success the function has overwritten    *)
(* the name buffer with the (truncated) filename and a NUL.                *)
(*                                                                         *)
(* pas_zip__name_buf is represented by the bytes memcpy put in front of    *)
(* the terminator written at [fn_len]; every reader of the buffer reads it *)
(* as a C string from [0], so what lies behind that terminator is never    *)
(* observed.                                                               *)
(***************************************************************************)
\* parse_cd_entry without the test that the whole record lies inside the
\* archive; a byte behind the end of the archive reads as 0
Mut_parse_cd_entry_NoNeed(data, size, p, name_buf) ==
    IF p + CDH_SIZE > size
    THEN [ok |-> 0, name_buf |-> name_buf, reads |-> 0]
    ELSE IF read_u32_le(data, p) # Sig(PAS_ZIP_CDH_SIG)
    THEN [ok |-> 0, name_buf |-> name_buf, reads |-> p + 4]
    ELSE LET fn_len == read_u16_le(data, p + 28)
             fn_cut == IF fn_len >= NAME_BUF_SIZE
                       THEN NAME_BUF_SIZE - 1 ELSE fn_len
         IN  [ok |-> 1,
              out |-> [name |-> "pas_zip__name_buf",
                       compression_method |-> read_u16_le(data, p + 10),
                       compressed_size |-> read_u32_le(data, p + 20),
                       uncompressed_size |-> read_u32_le(data, p + 24),
                       local_header_offset |-> read_u32_le(data, p + 42)],
              name_buf |-> [k \in 1..fn_cut |->
                              IF p + 46 + k <= size THEN data[p + 46 + k] ELSE 0],
              reads |-> p + 46 + fn_cut]

parse_cd_entry(data, size, p, name_buf) ==
    IF p + CDH_SIZE > size
    THEN [ok |-> 0, name_buf |-> name_buf, reads |-> 0]
    ELSE IF read_u32_le(data, p) # Sig(PAS_ZIP_CDH_SIG)
    THEN [ok |-> 0, name_buf |-> name_buf, reads |-> p + 4]
    ELSE LET fn_len == read_u16_le(data, p + 28)
             extra_len == read_u16_le(data, p + 30)
             comment_len == read_u16_le(data, p + 32)
             need == 46 + fn_len + extra_len + comment_len
         IN  IF p + need > size
             THEN [ok |-> 0, name_buf |-> name_buf, reads |-> p + 34]
             ELSE LET fn_cut == IF fn_len >= NAME_BUF_SIZE
                                THEN NAME_BUF_SIZE - 1 ELSE fn_len
                  IN  [ok |-> 1,
                       out |-> [name |-> "pas_zip__name_buf",
                                compression_method |-> read_u16_le(data, p + 10),
                                compressed_size |-> read_u32_le(data, p + 20),
                                uncompressed_size |-> read_u32_le(data, p + 24),
                                local_header_offset |-> read_u32_le(data, p + 42)],
                       name_buf |-> SubSeq(data, p + 46 + 1, p + 46 + fn_cut),
                       reads |-> p + 46 + fn_cut]

(***************************************************************************)
(* cd_iterate: the shared loop of find and list.  find_name is a record    *)
(* [null, str]: null = TRUE is the NULL pointer list passes; cb = TRUE is  *)
(* list's non-NULL callback.  n and p are the loop's counter and cursor;   *)
(* calls is the sequence of callback invocations made so far, each         *)
(* <<name, size>> with the name read as the C string the callback gets.    *)
(***************************************************************************)
\* cd_iterate_loop advancing the cursor without the comment length
RECURSIVE Mut_cd_iterate_loop_NoComment(_, _, _, _, _, _, _)
Mut_cd_iterate_loop_NoComment(zip, find_name, cb, n, p, name_buf, calls) ==
    IF n = 0 \/ ~(p < zip.size)
    THEN [ret |-> IF ~find_name.null THEN 0 ELSE 1,
          name_buf |-> name_buf, calls |-> calls, reads |-> 0]
    ELSE LET r == parse_cd_entry(zip.data, zip.size, p, name_buf)
         IN  IF r.ok = 0
             THEN [ret |-> 0, name_buf |-> name_buf, calls |-> calls,
                   reads |-> r.reads]
             ELSE LET calls2 == IF cb
                                THEN Append(calls, << CStr(r.name_buf),
                                                      r.out.uncompressed_size >>)
                                ELSE calls
                  IN  IF ~find_name.null /\ CStr(r.name_buf) = find_name.str
                      THEN [ret |-> 1, out |-> r.out,
                            name_buf |-> r.name_buf, calls |-> calls2,
                            reads |-> r.reads]
                      ELSE LET rest ==
                             Mut_cd_iterate_loop_NoComment(zip, find_name, cb, n - 1,
                                 p + 46 + read_u16_le(zip.data, p + 28)
                                   + read_u16_le(zip.data, p + 30),
                                 r.name_buf, calls2)
                           IN  [rest EXCEPT !.reads = Max(@, r.reads)]

\* cd_iterate_loop leaving the loop (break) on a record that fails to parse
RECURSIVE Mut_cd_iterate_loop_Break(_, _, _, _, _, _, _)
Mut_cd_iterate_loop_Break(zip, find_name, cb, n, p, name_buf, calls) ==
    IF n = 0 \/ ~(p < zip.size)
    THEN [ret |-> IF ~find_name.null THEN 0 ELSE 1,
          name_buf |-> name_buf, calls |-> calls, reads |-> 0]
    ELSE LET r == parse_cd_entry(zip.data, zip.size, p, name_buf)
         IN  IF r.ok = 0
             THEN [ret |-> IF ~find_name.null THEN 0 ELSE 1,
                   name_buf |-> name_buf, calls |-> calls, reads |-> r.reads]
             ELSE LET calls2 == IF cb
                                THEN Append(calls, << CStr(r.name_buf),
                                                      r.out.uncompressed_size >>)
                                ELSE calls
                  IN  IF ~find_name.null /\ CStr(r.name_buf) = find_name.str
                      THEN [ret |-> 1, out |-> r.out,
                            name_buf |-> r.name_buf, calls |-> calls2,
                            reads |-> r.reads]
                      ELSE LET rest ==
                             Mut_cd_iterate_loop_Break(zip, find_name, cb, n - 1,
                                 p + 46 + read_u16_le(zip.data, p + 28)
                                   + read_u16_le(zip.data, p + 30)
                                   + read_u16_le(zip.data, p + 32),
                                 r.name_buf, calls2)
                           IN  [rest EXCEPT !.reads = Max(@, r.reads)]

\* cd_iterate_loop advancing the cursor by the length of the name it kept
RECURSIVE Mut_cd_iterate_loop_CutAdvance(_, _, _, _, _, _, _)
Mut_cd_iterate_loop_CutAdvance(zip, find_name, cb, n, p, name_buf, calls) ==
    IF n = 0 \/ ~(p < zip.size)
    THEN [ret |-> IF ~find_name.null THEN 0 ELSE 1,
          name_buf |-> name_buf, calls |-> calls, reads |-> 0]
    ELSE LET r == parse_cd_entry(zip.data, zip.size, p, name_buf)
         IN  IF r.ok = 0
             THEN [ret |-> 0, name_buf |-> name_buf, calls |-> calls,
                   reads |-> r.reads]
             ELSE LET calls2 == IF cb
                                THEN Append(calls, << CStr(r.name_buf),
                                                      r.out.uncompressed_size >>)
                                ELSE calls
                  IN  IF ~find_name.null /\ CStr(r.name_buf) = find_name.str
                      THEN [ret |-> 1, out |-> r.out,
                            name_buf |-> r.name_buf, calls |-> calls2,
                            reads |-> r.reads]
                      ELSE LET rest ==
                             Mut_cd_iterate_loop_CutAdvance(zip, find_name, cb, n - 1,
                                 p + 46 + Min(read_u16_le(zip.data, p + 28),
                                              NAME_BUF_SIZE - 1)
                                   + read_u16_le(zip.data, p + 30)
                                   + read_u16_le(zip.data, p + 32),
                                 r.name_buf, calls2)
                           IN  [rest EXCEPT !.reads = Max(@, r.reads)]

RECURSIVE cd_iterate_loop(_, _, _, _, _, _, _)
cd_iterate_loop(zip, find_name, cb, n, p, name_buf, calls) ==
    IF n = 0 \/ ~(p < zip.size)
    THEN [ret |-> IF ~find_name.null THEN 0 ELSE 1,
          name_buf |-> name_buf, calls |-> calls, reads |-> 0]
    ELSE LET r == parse_cd_entry(zip.data, zip.size, p, name_buf)
         IN  IF r.ok = 0
             THEN [ret |-> 0, name_buf |-> name_buf, calls |-> calls,
                   reads |-> r.reads]
             ELSE LET calls2 == IF cb
                                THEN Append(calls, << CStr(r.name_buf),
                                                      r.out.uncompressed_size >>)
                                ELSE calls
                  IN  IF ~find_name.null /\ CStr(r.name_buf) = find_name.str
                      THEN [ret |-> 1, out |-> r.out,
                            name_buf |-> r.name_buf, calls |-> calls2,
                            reads |-> r.reads]
                      ELSE LET rest ==
                             cd_iterate_loop(zip, find_name, cb, n - 1,
                                 p + 46 + read_u16_le(zip.data, p + 28)
                                   + read_u16_le(zip.data, p + 30)
                                   + read_u16_le(zip.data, p + 32),
                                 r.name_buf, calls2)
                           IN  [rest EXCEPT !.reads = Max(@, r.reads)]

cd_iterate(zip, find_name, cb, name_buf) ==
    cd_iterate_loop(zip, find_name, cb, zip.num_entries, zip.cd_offset,
                    name_buf, << >>)

(***************************************************************************)
(* skip_local_header: the value it returns is 30 + fn_len + extra_len, or  *)
(* 0.  offset is a 32-bit value and offset + 30 is computed in 32 bits.    *)
(***************************************************************************)
skip_local_header(data, size, offset) ==
    IF GtW(Add32(offset, LFH_SIZE), size) THEN 0
    ELSE IF read_u32_le(data, Val(offset)) # Sig(PAS_ZIP_LFH_SIG) THEN 0
    ELSE 30 + read_u16_le(data, Val(offset) + 26)
            + read_u16_le(data, Val(offset) + 28)

(***************************************************************************)
(* pas_zip_extract, built with neither PAS_ZIP_USE_MINIZ nor               *)
(* PAS_ZIP_USE_ZLIB.  mem is the caller's destination (buffer_size bytes); *)
(* overrun counts the bytes memcpy stores behind its end, copied the bytes  *)
(* memcpy was asked to copy.                                               *)
(***************************************************************************)
\* pas_zip_extract with buffer_size <= uncompressed_size as the NOSPACE test
Mut_pas_zip_extract_Ge(handle, file, mem, buffer_size) ==
    LET data == handle.data
        data_size == handle.size
        payload_offset == skip_local_header(data, data_size, file.local_header_offset)
        fail(st) == [ret |-> 0, status |-> st, mem |-> mem, overrun |-> 0,
                     copied |-> 0]
    IN  IF payload_offset = 0 THEN fail(PAS_ZIP_E_INVALID)
        ELSE IF payload_offset > data_size
                  \/ GtW(file.compressed_size, data_size - payload_offset)
        THEN fail(PAS_ZIP_E_INVALID)
        ELSE IF GeW(file.uncompressed_size, buffer_size)
        THEN fail(PAS_ZIP_E_NOSPACE)
        ELSE IF file.compression_method = PAS_ZIP_METHOD_STORE
        THEN [ret |-> Val(file.uncompressed_size), status |-> PAS_ZIP_OK,
              mem |-> Store(mem, 0, SubSeq(data, payload_offset + 1,
                                 payload_offset + Val(file.compressed_size))),
              overrun |-> Max(0, Val(file.compressed_size) - buffer_size),
              copied |-> Val(file.compressed_size)]
        ELSE IF file.compression_method = PAS_ZIP_METHOD_DEFLATE
        THEN fail(PAS_ZIP_E_COMPRESSED)
        ELSE fail(PAS_ZIP_E_INVALID)

\* pas_zip_extract copying a Deflate entry's bytes as if they were stored
Mut_pas_zip_extract_DeflateCopy(handle, file, mem, buffer_size) ==
    LET data == handle.data
        data_size == handle.size
        payload_offset == skip_local_header(data, data_size, file.local_header_offset)
        fail(st) == [ret |-> 0, status |-> st, mem |-> mem, overrun |-> 0,
                     copied |-> 0]
    IN  IF payload_offset = 0 THEN fail(PAS_ZIP_E_INVALID)
        ELSE IF payload_offset > data_size
                  \/ GtW(file.compressed_size, data_size - payload_offset)
        THEN fail(PAS_ZIP_E_INVALID)
        ELSE IF GtW(file.uncompressed_size, buffer_size)
        THEN fail(PAS_ZIP_E_NOSPACE)
        ELSE IF file.compression_method = PAS_ZIP_METHOD_STORE
                  \/ file.compression_method = PAS_ZIP_METHOD_DEFLATE
        THEN [ret |-> Val(file.uncompressed_size), status |-> PAS_ZIP_OK,
              mem |-> Store(mem, 0, SubSeq(data, payload_offset + 1,
                                 payload_offset + Val(file.compressed_size))),
              overrun |-> Max(0, Val(file.compressed_size) - buffer_size),
              copied |-> Val(file.compressed_size)]
        ELSE fail(PAS_ZIP_E_INVALID)

\* pas_zip_extract answering every method other than Store as it answers Deflate
Mut_pas_zip_extract_AnyCompressed(handle, file, mem, buffer_size) ==
    LET data == handle.data
        data_size == handle.size
        payload_offset == skip_local_header(data, data_size, file.local_header_offset)
        fail(st) == [ret |-> 0, status |-> st, mem |-> mem, overrun |-> 0,
                     copied |-> 0]
    IN  IF payload_offset = 0 THEN fail(PAS_ZIP_E_INVALID)
        ELSE IF payload_offset > data_size
                  \/ GtW(file.compressed_size, data_size - payload_offset)
        THEN fail(PAS_ZIP_E_INVALID)
        ELSE IF GtW(file.uncompressed_size, buffer_size)
        THEN fail(PAS_ZIP_E_NOSPACE)
        ELSE IF file.compression_method = PAS_ZIP_METHOD_STORE
        THEN [ret |-> Val(file.uncompressed_size), status |-> PAS_ZIP_OK,
              mem |-> Store(mem, 0, SubSeq(data, payload_offset + 1,
                                 payload_offset + Val(file.compressed_size))),
              overrun |-> Max(0, Val(file.compressed_size) - buffer_size),
              copied |-> Val(file.compressed_size)]
        ELSE fail(PAS_ZIP_E_COMPRESSED)

\* pas_zip_extract behind its call of skip_local_header, which returned
\* payload_offset
pas_zip_extract_payload(handle, file, mem, buffer_size, payload_offset) ==
    LET data == handle.data
        data_size == handle.size
        fail(st) == [ret |-> 0, status |-> st, mem |-> mem, overrun |-> 0,
                     copied |-> 0]
    IN  IF payload_offset = 0 THEN fail(PAS_ZIP_E_INVALID)
        ELSE IF payload_offset > data_size
                  \/ GtW(file.compressed_size, data_size - payload_offset)
        THEN fail(PAS_ZIP_E_INVALID)
        ELSE IF GtW(file.uncompressed_size, buffer_size)
        THEN fail(PAS_ZIP_E_NOSPACE)
        ELSE IF file.compression_method = PAS_ZIP_METHOD_STORE
        THEN [ret |-> Val(file.uncompressed_size), status |-> PAS_ZIP_OK,
              mem |-> Store(mem, 0, SubSeq(data, payload_offset + 1,
                                 payload_offset + Val(file.compressed_size))),
              overrun |-> Max(0, Val(file.compressed_size) - buffer_size),
              copied |-> Val(file.compressed_size)]
        ELSE IF file.compression_method = PAS_ZIP_METHOD_DEFLATE
        THEN fail(PAS_ZIP_E_COMPRESSED)
        ELSE fail(PAS_ZIP_E_INVALID)

\* for an entry whose local header skip_local_header reads inside the archive
pas_zip_extract(handle, file, mem, buffer_size) ==
    pas_zip_extract_payload(handle, file, mem, buffer_size,
        skip_local_header(handle.data, handle.size, file.local_header_offset))

\* skip_local_header tests offset + 30 > size on the 32-bit sum: an offset
\* within 30 of 2^32 wraps to a small sum, passes the test, and the header
\* is then read at data + offset, outside the archive
HeaderReadOutside(handle, file) ==
    /\ ~GtW(Add32(file.local_header_offset, LFH_SIZE), handle.size)
    /\ GtW(file.local_header_offset, handle.size - LFH_SIZE)

\* What skip_local_header can return after reading its header outside the
\* archive, when the read does not end the program: 0 when the bytes found
\* there are no local-header signature, 30 + fn_len + extra_len when they
\* are (here with both lengths 0).
ForeignHeaderReturns == { 0, LFH_SIZE }

(***************************************************************************)
(* pas_zip_open: [ret, status, handle, at, low]; at and low are what the   *)
(* scan of find_eocd met and how far down it went.  ret is NULL or         *)
(* "pas_zip__handle",                                                      *)
(* handle what the success path assigns to pas_zip__handle (the failure    *)
(* paths return before the assignments).                                   *)
(***************************************************************************)
NoHandle == [data |-> << >>, size |-> 0, cd_offset |-> 0, num_entries |-> 0]

pas_zip_open(data, size) ==
    IF size < EOCD_SIZE
    THEN [ret |-> NULL, status |-> PAS_ZIP_E_INVALID, handle |-> NoHandle,
          at |-> -1, low |-> -1]
    ELSE LET e == find_eocd(data, size)
         IN  IF e.found = 0
             THEN [ret |-> NULL, status |-> PAS_ZIP_E_INVALID, handle |-> NoHandle,
                   at |-> e.at, low |-> e.low]
             ELSE [ret |-> "pas_zip__handle", status |-> PAS_ZIP_OK,
                   handle |-> [data |-> data, size |-> size,
                               cd_offset |-> e.cd_offset,
                               num_entries |-> e.num_entries],
                   at |-> e.at, low |-> e.low]

(***************************************************************************)
(* pas_zip_find: [ret, current_file, name_buf].                            *)
(***************************************************************************)
pas_zip_find(zip, name, current_file, name_buf) ==
    LET r == cd_iterate(zip, [null |-> FALSE, str |-> name], FALSE, name_buf)
    IN  IF r.ret = 0
        THEN [ret |-> NULL, current_file |-> current_file,
              name_buf |-> r.name_buf, reads |-> r.reads]
        ELSE [ret |-> "pas_zip__current_file", current_file |-> r.out,
              name_buf |-> r.name_buf, reads |-> r.reads]

(***************************************************************************)
(* pas_zip_list: [ret, calls, name_buf].                                   *)
(***************************************************************************)
pas_zip_list(zip, name_buf) ==
    LET r == cd_iterate(zip, [null |-> TRUE, str |-> << >>], TRUE, name_buf)
    IN  [ret |-> IF r.ret # 0 THEN 0 ELSE -1, calls |-> r.calls,
         name_buf |-> r.name_buf, reads |-> r.reads]

(***************************************************************************)
(* pas_zip_create.  filenames[i] is a NUL-free byte sequence (strlen is    *)
(* its length), datas[i] the payload, sizes[i] its declared size.  The     *)
(* loop state st is [written, mem, cd_size, status, fail]: mem is the      *)
(* caller's buffer (buffer_size bytes), written the running output index,  *)
(* which is also one past the highest index the code has stored to.        *)
(***************************************************************************)
LocalHeaderBytes(fn_len, sz) ==
    << 80, 75, 3, 4 >> \o << 20, 0, 0, 0 >> \o << 0, 0 >> \o Zeros(12)
      \o LE32W(sz) \o LE32W(sz) \o LE16(fn_len) \o << 0, 0 >>

CentralHeaderBytes(fn_len, local_off) ==
    << 80, 75, 1, 2 >> \o << 20, 0, 20, 0 >> \o << 0, 0, 0, 0 >> \o Zeros(12)
      \o LE16(fn_len) \o << 0, 0, 0, 0 >> \o << 0, 0, 0, 0 >> \o << 0, 0 >>
      \o LE32W(local_off)

TrailerBytes(file_count, cd_size, cd_offset) ==
    << 80, 75, 5, 6 >> \o Zeros(4) \o LE16(file_count) \o LE16(file_count)
      \o LE32W(cd_size) \o LE32W(cd_offset) \o << 0, 0 >>

RECURSIVE CreateLocals(_, _, _, _, _, _, _)
CreateLocals(filenames, datas, sizes, file_count, buffer_size, i, st) ==
    IF i >= file_count THEN st
    ELSE LET fn_len == Len(filenames[i + 1]) % U16
             sz == ToU32(sizes[i + 1])
             need == 30 + fn_len + Val(sz)
         IN  IF fn_len # Len(filenames[i + 1])
             THEN [st EXCEPT !.fail = TRUE]
             ELSE IF st.written + need > buffer_size
             THEN [st EXCEPT !.fail = TRUE, !.status = PAS_ZIP_E_NOSPACE]
             ELSE LET bytes == LocalHeaderBytes(fn_len, sz)
                                 \o SubSeq(filenames[i + 1], 1, fn_len)
                                 \o SubSeq(datas[i + 1], 1, Val(sz))
                  IN  CreateLocals(filenames, datas, sizes, file_count,
                          buffer_size, i + 1,
                          [st EXCEPT !.mem = Store(st.mem, st.written, bytes),
                                     !.written = st.written + Len(bytes)])

RECURSIVE LocalOff(_, _, _)
\* the inner j-loop: sum of 30 + strlen + size over the entries before i
LocalOff(filenames, sizes, i) ==
    IF i = 0 THEN ToU32(0)
    ELSE Add32(Add32(Add32(LocalOff(filenames, sizes, i - 1), 30),
                     Len(filenames[i])), sizes[i])

RECURSIVE CreateCentral(_, _, _, _, _, _)
CreateCentral(filenames, sizes, file_count, buffer_size, i, st) ==
    IF i >= file_count THEN st
    ELSE LET fn_len == Len(filenames[i + 1]) % U16
             local_off == LocalOff(filenames, sizes, i)
         IN  IF st.written + 46 + fn_len > buffer_size
             THEN [st EXCEPT !.fail = TRUE, !.status = PAS_ZIP_E_NOSPACE]
             ELSE LET bytes == CentralHeaderBytes(fn_len, local_off)
                                 \o SubSeq(filenames[i + 1], 1, fn_len)
                  IN  CreateCentral(filenames, sizes, file_count, buffer_size,
                          i + 1,
                          [st EXCEPT !.mem = Store(st.mem, st.written, bytes),
                                     !.written = st.written + Len(bytes),
                                     !.cd_size = Add32(st.cd_size, 46 + fn_len)])

\* pas_zip_create refusing a destination the archive fills to its last byte
Mut_pas_zip_create_TrailerGe(null, filenames, datas, sizes, file_count, mem, buffer_size) ==
    LET st0 == [written |-> 0, mem |-> mem, cd_size |-> ToU32(0),
                status |-> PAS_ZIP_E_INVALID, fail |-> FALSE]
        done(st) == [ret |-> 0, status |-> st.status, mem |-> st.mem,
                     written |-> st.written]
    IN  IF null \/ file_count <= 0 THEN done(st0)
        ELSE LET st1 == CreateLocals(filenames, datas, sizes, file_count,
                                     buffer_size, 0, st0)
             IN  IF st1.fail THEN done(st1)
                 ELSE LET cd_offset == ToU32(st1.written)
                          st2 == CreateCentral(filenames, sizes, file_count,
                                               buffer_size, 0, st1)
                      IN  IF st2.fail THEN done(st2)
                          ELSE IF st2.written + 22 >= buffer_size
                          THEN done([st2 EXCEPT !.status = PAS_ZIP_E_NOSPACE])
                          ELSE LET bytes == TrailerBytes(file_count, st2.cd_size,
                                                         cd_offset)
                               IN  [ret |-> st2.written + Len(bytes),
                                    status |-> PAS_ZIP_OK,
                                    mem |-> Store(st2.mem, st2.written, bytes),
                                    written |-> st2.written + Len(bytes)]

\* [ret, status, mem, written]; file_count is Len(filenames) as the caller
\* passes it, null = TRUE when one of the pointer arguments is NULL
pas_zip_create(null, filenames, datas, sizes, file_count, mem, buffer_size) ==
    LET st0 == [written |-> 0, mem |-> mem, cd_size |-> ToU32(0),
                status |-> PAS_ZIP_E_INVALID, fail |-> FALSE]
        done(st) == [ret |-> 0, status |-> st.status, mem |-> st.mem,
                     written |-> st.written]
    IN  IF null \/ file_count <= 0 THEN done(st0)
        ELSE LET st1 == CreateLocals(filenames, datas, sizes, file_count,
                                     buffer_size, 0, st0)
             IN  IF st1.fail THEN done(st1)
                 ELSE LET cd_offset == ToU32(st1.written)
                          st2 == CreateCentral(filenames, sizes, file_count,
                                               buffer_size, 0, st1)
                      IN  IF st2.fail THEN done(st2)
                          ELSE IF st2.written + 22 > buffer_size
                          THEN done([st2 EXCEPT !.status = PAS_ZIP_E_NOSPACE])
                          ELSE LET bytes == TrailerBytes(file_count, st2.cd_size,
                                                         cd_offset)
                               IN  [ret |-> st2.written + Len(bytes),
                                    status |-> PAS_ZIP_OK,
                                    mem |-> Store(st2.mem, st2.written, bytes),
                                    written |-> st2.written + Len(bytes)]

(***************************************************************************)
(* pas_http1.h, the HTTP/1.1 client.  Strings are sequences of character   *)
(* codes without their terminator; CharAt reads s[i] of the C string, the  *)
(* terminator included (i = Len(s)) and nothing behind it.                 *)
(***************************************************************************)
PAS_HTTP_OK == 0
PAS_HTTP_E_INVALID_URL == -1
PAS_HTTP_E_CONNECTION == -2
PAS_HTTP_E_TIMEOUT == -3
PAS_HTTP_E_NOSPACE == -4

PAS_HTTP_MAX_HOST == 256
PAS_HTTP_MAX_PATH == 1024
\* sizeof(req_buf)
REQ_BUF_SIZE == 2048
\* the largest port number parse_url lets through
PORT_MAX == 65535
\* the shortest buffer parse_response looks at
RESPONSE_MIN == 12

CharAt(s, i) == IF i = Len(s) THEN 0 ELSE s[i + 1]

\* the digit loop of the port: [ok, port, p], ok = FALSE on *port > 65535
RECURSIVE PortDigits(_, _, _)
PortDigits(url, p, port) ==
    IF CharAt(url, p) >= 48 /\ CharAt(url, p) <= 57
    THEN LET next == port * 10 + (CharAt(url, p) - 48)
         IN  IF next > PORT_MAX THEN [ok |-> FALSE, port |-> next, p |-> p]
             ELSE PortDigits(url, p + 1, next)
    ELSE [ok |-> TRUE, port |-> port, p |-> p]

\* [ret, host, port, path] for a non-NULL url
pas_http_parse_url(url, host_size, path_size) ==
    LET bad == [ret |-> -1, host |-> << >>, port |-> 80, path |-> << >>]
    IN  IF host_size = 0 \/ path_size = 0 THEN bad
        ELSE IF CharAt(url, 0) # 104 \/ CharAt(url, 1) # 116
                  \/ CharAt(url, 2) # 116 \/ CharAt(url, 3) # 112 THEN bad
        ELSE IF CharAt(url, 4) = 115 THEN bad
        ELSE IF CharAt(url, 4) # 58 \/ CharAt(url, 5) # 47
                  \/ CharAt(url, 6) # 47 THEN bad
        ELSE LET \* the host loop stops at a NUL, ':' or '/' or at a full buffer
                 stops == { j \in 7..Len(url) :
                              \/ CharAt(url, j) \in { 0, 58, 47 }
                              \/ j - 7 = host_size - 1 }
                 h == CHOOSE j \in stops : \A k \in stops : j <= k
                 host == SubSeq(url, 8, h)
             IN  IF h - 7 = 0 THEN bad
                 ELSE LET pd == IF CharAt(url, h) = 58
                                THEN PortDigits(url, h + 1, 0)
                                ELSE [ok |-> TRUE, port |-> 80, p |-> h]
                      IN  IF ~pd.ok THEN bad
                          ELSE IF CharAt(url, pd.p) = 0 \/ CharAt(url, pd.p) # 47
                          THEN IF path_size < 2 THEN bad
                               ELSE [ret |-> 0, host |-> host, port |-> pd.port,
                                     path |-> << 47 >>]
                          ELSE LET last_i == IF Len(url) - pd.p < path_size - 1
                                             THEN Len(url) - pd.p
                                             ELSE path_size - 1
                               IN  [ret |-> 0, host |-> host, port |-> pd.port,
                                    path |-> SubSeq(url, pd.p + 1, pd.p + last_i)]

\* the response structure with every field cleared; headers and body are
\* offsets into the response buffer, -1 for the NULL pointer
NoResponse ==
    [status_code |-> 0, headers |-> -1, headers_len |-> 0,
     body |-> -1, body_len |-> 0]

\* the digit loop of the status line: [code, p]
RECURSIVE StatusDigits(_, _, _, _)
StatusDigits(buf, buf_len, p, code) ==
    IF p < buf_len /\ buf[p + 1] >= 48 /\ buf[p + 1] <= 57
    THEN StatusDigits(buf, buf_len, p + 1, code * 10 + (buf[p + 1] - 48))
    ELSE [code |-> code, p |-> p]

\* [ret, out]: out is *out after the call; headers and body are offsets
\* into the response buffer
pas_http_parse_response(buf, buf_len, out) ==
    IF buf_len < RESPONSE_MIN THEN [ret |-> -1, out |-> out]
    ELSE IF 9 > buf_len THEN [ret |-> -1, out |-> NoResponse]
    ELSE IF buf[1] # 72 \/ buf[2] # 84 \/ buf[3] # 84 \/ buf[4] # 80
              \/ buf[5] # 47 \/ buf[6] # 49 \/ buf[7] # 46
    THEN [ret |-> -1, out |-> NoResponse]
    ELSE LET nonsp == { j \in 8..buf_len : j = buf_len \/ buf[j + 1] # 32 }
             p == CHOOSE j \in nonsp : \A k \in nonsp : j <= k
         IN  IF p >= buf_len \/ buf[p + 1] < 48 \/ buf[p + 1] > 57
             THEN [ret |-> -1, out |-> NoResponse]
             ELSE LET d == StatusDigits(buf, buf_len, p, 0)
                      ends == { q \in d.p..(buf_len - 4) :
                                  /\ buf[q + 1] = 13 /\ buf[q + 2] = 10
                                  /\ buf[q + 3] = 13 /\ buf[q + 4] = 10 }
                  IN  IF ends = {}
                      THEN [ret |-> -1,
                            out |-> [NoResponse EXCEPT !.status_code = d.code]]
                      ELSE LET q == CHOOSE j \in ends : \A k \in ends : j <= k
                           IN  [ret |-> 0,
                                out |-> [status_code |-> d.code, headers |-> 0,
                                         headers_len |-> q, body |-> q + 4,
                                         body_len |-> buf_len - (q + 4)]]

\* the number of decimal digits of n >= 0 (%zu)
RECURSIVE Digits(_)
Digits(n) == IF n < 10 THEN 1 ELSE 1 + Digits(n \div 10)

\* what snprintf returns for the request head
RequestLen(method, host, path, body_null, body_len) ==
    Len(method) + 1 + Len(path) + 11 + 6 + Len(host) + 2 + 19
      + (IF ~body_null /\ body_len > 0 THEN 16 + Digits(body_len) + 2 ELSE 0)
      + 2

\* the entry of pas_http_get / pas_http_post and of pas_http_do_request up
\* to getaddrinfo, for a call c = [method, url, url_null, buffer_null,
\* out_null, status_null, body_null, body_len, buffer_size, status0]:
\* [returned, ret, status, out, host, port, path]; status0 and status are
\* the value behind the status pointer before and after
pas_http_enter(c) ==
    LET back(code, st, out) ==
            [returned |-> TRUE, ret |-> code, status |-> st, out |-> out,
             host |-> << >>, port |-> 0, path |-> << >>]
    IN  IF c.url_null \/ c.buffer_null \/ c.out_null \/ c.status_null
        THEN back(PAS_HTTP_E_INVALID_URL,
                  IF c.status_null THEN c.status0 ELSE PAS_HTTP_E_INVALID_URL,
                  c.out0)
        ELSE IF c.method = << 80, 79, 83, 84 >> /\ c.body_len > 0 /\ c.body_null
        THEN back(PAS_HTTP_E_INVALID_URL, PAS_HTTP_E_INVALID_URL, c.out0)
        ELSE LET u == pas_http_parse_url(c.url, PAS_HTTP_MAX_HOST,
                                         PAS_HTTP_MAX_PATH)
             IN  IF u.ret # 0
                 THEN back(PAS_HTTP_E_INVALID_URL, PAS_HTTP_E_INVALID_URL, c.out0)
                 ELSE IF c.buffer_size = 0
                 THEN back(PAS_HTTP_E_NOSPACE, PAS_HTTP_E_NOSPACE, NoResponse)
                 ELSE [returned |-> FALSE, ret |-> 0, status |-> PAS_HTTP_OK,
                       out |-> NoResponse, host |-> u.host, port |-> u.port,
                       path |-> u.path]

\* pas_http_do_request returning 0 whenever the response parses
Mut_pas_http_finish_ReturnZero(buf, buffer_size, out, status) ==
    LET total_read == Len(buf)
    IN  IF total_read = 0
        THEN [ret |-> PAS_HTTP_E_CONNECTION, status |-> PAS_HTTP_E_CONNECTION,
              out |-> out]
        ELSE LET st == IF total_read >= buffer_size THEN PAS_HTTP_E_NOSPACE
                       ELSE status
                 r == pas_http_parse_response(buf, total_read, out)
             IN  IF r.ret # 0
                 THEN [ret |-> PAS_HTTP_E_CONNECTION,
                       status |-> PAS_HTTP_E_CONNECTION, out |-> r.out]
                 ELSE [ret |-> 0, status |-> st, out |-> r.out]

\* pas_http_do_request behind the receive loop: buf holds the total_read
\* bytes received; [ret, status, out]
pas_http_finish(buf, buffer_size, out, status) ==
    LET total_read == Len(buf)
    IN  IF total_read = 0
        THEN [ret |-> PAS_HTTP_E_CONNECTION, status |-> PAS_HTTP_E_CONNECTION,
              out |-> out]
        ELSE LET st == IF total_read >= buffer_size THEN PAS_HTTP_E_NOSPACE
                       ELSE status
                 r == pas_http_parse_response(buf, total_read, out)
             IN  IF r.ret # 0
                 THEN [ret |-> PAS_HTTP_E_CONNECTION,
                       status |-> PAS_HTTP_E_CONNECTION, out |-> r.out]
                 ELSE [ret |-> IF st = PAS_HTTP_E_NOSPACE
                               THEN PAS_HTTP_E_NOSPACE ELSE 0,
                       status |-> st, out |-> r.out]

(***************************************************************************)
(* Inputs.  Archives handed to pas_zip_open are either the output of an    *)
(* earlier pas_zip_create or buffers laid out by hand after the ZIP        *)
(* format: (local header, name, extra, payload)*, (central record, name,   *)
(* extra, comment)*, end record, archive comment.  A hand-made archive is  *)
(* described by a record                                                   *)
(*   [entries, count, cd_offset, comment]                                  *)
(* with count / cd_offset = -1 meaning "the true value", and each entry    *)
(*   [name, payload, method, csize, usize, lextra, cextra, comment, sig,    *)
(*    lho, clen]                                                           *)
(* with lho = TrueOffset / clen = -1 meaning "the true value".             *)
(***************************************************************************)
MaxDest == 3

Sum(f, n) ==
    LET RECURSIVE S(_)
        S(k) == IF k = 0 THEN 0 ELSE S(k - 1) + f[k]
    IN  S(n)

Concat(f, n) ==
    LET RECURSIVE C(_)
        C(k) == IF k = 0 THEN << >> ELSE C(k - 1) \o f[k]
    IN  C(n)

\* the local_header_offset field of an entry's central record when it is
\* to hold the offset of the entry's local header
TrueOffset == [hi |-> -1, lo |-> -1]

FxLocal(e) ==
    LE32(PAS_ZIP_LFH_SIG) \o << 20, 0 >> \o << 0, 0 >> \o LE16(e.method)
      \o Zeros(8) \o LE32(e.csize) \o LE32(e.usize)
      \o LE16(Len(e.name)) \o LE16(Len(e.lextra))
      \o e.name \o e.lextra \o e.payload

FxLocalOffset(entries, i) ==
    Sum([k \in 1..Len(entries) |-> Len(FxLocal(entries[k]))], i - 1)

FxCentral(e, lho) ==
    LE32(e.sig) \o << 20, 0, 20, 0 >> \o << 0, 0 >> \o LE16(e.method)
      \o Zeros(8) \o LE32(e.csize) \o LE32(e.usize)
      \o LE16(Len(e.name)) \o LE16(Len(e.cextra))
      \o LE16(IF e.clen < 0 THEN Len(e.comment) ELSE e.clen)
      \o Zeros(8) \o LE32W(IF e.lho = TrueOffset THEN ToU32(lho) ELSE e.lho)
      \o e.name \o e.cextra \o e.comment

FxCdOffset(fx) == FxLocalOffset(fx.entries, Len(fx.entries) + 1)

FxBytes(fx) ==
    LET n == Len(fx.entries)
        locals == Concat([k \in 1..n |-> FxLocal(fx.entries[k])], n)
        cd == Concat([k \in 1..n |->
                        FxCentral(fx.entries[k], FxLocalOffset(fx.entries, k))], n)
    IN  locals \o cd
          \o LE32(PAS_ZIP_EOCD_SIG) \o Zeros(4)
          \o LE16(IF fx.count < 0 THEN n ELSE fx.count)
          \o LE16(IF fx.count < 0 THEN n ELSE fx.count)
          \o LE32(Len(cd))
          \o LE32(IF fx.cd_offset < 0 THEN Len(locals) ELSE fx.cd_offset)
          \o LE16(Len(fx.comment)) \o fx.comment

\* a stored entry whose sizes agree with its payload
Stored(name, payload) ==
    [name |-> name, payload |-> payload, method |-> PAS_ZIP_METHOD_STORE,
     csize |-> Len(payload), usize |-> Len(payload),
     lextra |-> << >>, cextra |-> << >>, comment |-> << >>,
     sig |-> PAS_ZIP_CDH_SIG, lho |-> TrueOffset, clen |-> -1]

Archive(entries) ==
    [entries |-> entries, count |-> -1, cd_offset |-> -1, comment |-> << >>]

\* "a.txt", "b.bin", "missing", "a", "b", "c"
N_a_txt == << 97, 46, 116, 120, 116 >>
N_b_bin == << 98, 46, 98, 105, 110 >>
N_missing == << 109, 105, 115, 115, 105, 110, 103 >>
N_a == << 97 >>
N_b == << 98 >>
N_c == << 99 >>
P_hi == << 104, 105 >>

Decoy == LE32(PAS_ZIP_EOCD_SIG)

\* a filename longer than the name field: LongLen bytes 'n'
LongLen == 520
LongName == [k \in 1..LongLen |-> 110]

Fixtures ==
    << \* 1: the two files of the documented scenario, laid out by the format
       Archive(<< Stored(N_a_txt, P_hi), Stored(N_b_bin, << 0, 1, 2, 3 >>) >>),
       \* 2: local extra fields, central extra, a decoy signature in a file comment
       Archive(<< [Stored(N_a, << 1, 2 >>) EXCEPT !.lextra = << 9, 9, 9 >>,
                                                !.comment = Decoy],
                  [Stored(N_b, << 3 >>) EXCEPT !.cextra = << 8 >>],
                  Stored(N_c, << >>) >>),
       \* 3: a decoy signature at the head of a 22-byte archive comment
       [Archive(<< Stored(N_a, << 7 >>) >>) EXCEPT !.comment = Decoy \o Zeros(18)],
       \* 4: a decoy signature in the last bytes of the archive comment
       [Archive(<< Stored(N_a, << 7 >>) >>) EXCEPT !.comment = << 1 >> \o Decoy],
       \* 5: the end record declares a directory offset equal to the size
       [Archive(<< Stored(N_a, << 7 >>) >>) EXCEPT !.cd_offset = 101],
       \* 6: the second central record has a wrong signature
       Archive(<< Stored(N_a, << 1 >>),
                  [Stored(N_b, << 2 >>) EXCEPT !.sig = PAS_ZIP_LFH_SIG],
                  Stored(N_c, << 3 >>) >>),
       \* 7: two entries of the same name
       Archive(<< Stored(N_b, << 4 >>), Stored(N_a, << 1 >>),
                  Stored(N_a, << 2, 3 >>) >>),
       \* 8: a stored filename with an embedded NUL
       Archive(<< Stored(<< 97, 0, 98 >>, << 5 >>) >>),
       \* 9: no entries
       Archive(<< >>),
       \* 10: a Deflate entry, an entry of method 12, a Deflate entry
       Archive(<< [Stored(N_a, << 75, 76 >>) EXCEPT
                       !.method = PAS_ZIP_METHOD_DEFLATE, !.usize = 3],
                  [Stored(N_b, << 1 >>) EXCEPT !.method = 12],
                  [Stored(N_c, << 3 >>) EXCEPT
                       !.method = PAS_ZIP_METHOD_DEFLATE, !.usize = 2] >>),
       \* 11: an entry of method 1 in front, a Store entry whose central
       \*     record declares 1 compressed and 3 uncompressed bytes
       Archive(<< [Stored(N_a, << 6 >>) EXCEPT !.method = 1],
                  [Stored(N_b, << 5 >>) EXCEPT !.usize = 3] >>),
       \* 12: 180 bytes; both entries declare more payload than the archive
       \*     holds behind their payload start (1 and 63)
       Archive(<< [Stored(N_a, << 1 >>) EXCEPT !.csize = 200, !.usize = 200],
                  [Stored(N_b, << 2 >>) EXCEPT !.csize = 120, !.usize = 120] >>),
       \* 13: central records that declare the local headers at 1000, behind
       \*     the end of the archive, and at 0xFFFFFFF0
       Archive(<< [Stored(N_a, << 1 >>) EXCEPT !.lho = ToU32(1000)],
                  [Stored(N_b, << 2 >>) EXCEPT
                       !.lho = [hi |-> 65535, lo |-> 65520]] >>),
       \* 14: the second central record declares a 100-byte file comment;
       \*     69 bytes of the archive are left at the record
       Archive(<< Stored(N_a, << 1 >>),
                  [Stored(N_b, << 2 >>) EXCEPT !.clen = 100],
                  Stored(N_c, << 3 >>) >>),
       \* 15: the end record declares two entries, the directory holds one;
       \*     behind it 22 bytes of the archive are left
       [Archive(<< Stored(N_a, << 1 >>) >>) EXCEPT !.count = 2],
       \* 16: a filename longer than the name field, with a central extra
       \*     field and a file comment, in front of two more entries
       Archive(<< Stored(N_a, << 1 >>),
                  [Stored(LongName, << 4, 5 >>) EXCEPT !.cextra = << 8, 8 >>,
                                                      !.comment = << 7 >>],
                  Stored(N_c, << 9 >>) >>),
       \* 17: a Store entry whose central record declares 3 compressed
       \*     bytes, which the archive holds, and 1 uncompressed byte
       Archive(<< [Stored(N_a, << 1, 2, 3 >>) EXCEPT !.usize = 1] >>),
       \* 18: the end record at offset 0 declares two entries and a
       \*     directory at 22; the one central record fills the 47 bytes
       \*     behind the end record, up to the last byte of the archive
       [Archive(<< >>) EXCEPT !.count = 2, !.cd_offset = 22,
                              !.comment = FxCentral(Stored(N_a, << 1 >>), 0)]
    >>

\* the bytes of every hand-made archive
FixtureBytes ==
    LET RECURSIVE B(_)
        B(k) == IF k = 0 THEN << >>
                ELSE Append(B(k - 1), FxBytes(Fixtures[k]))
    IN  B(Len(Fixtures))

\* the size of the buffers longer than the search window of find_eocd
BigSize == 65600

\* buffers no archive writer made
\*   1: shorter than an end record      2: 22 bytes, no signature
\*   3: a signature too close to the end to start a 22-byte record
\*   4: archive 1 cut off in front of its end record
\*   5: BigSize bytes, longer than the search window, all zero but for a
\*      signature one position below the window
\*   6: the same with the signature at the lowest position of the window;
\*      the zero bytes behind it read as an end record of no entries
RawBuffers ==
    << Zeros(21), Zeros(22), Zeros(18) \o Decoy,
       SubSeq(FixtureBytes[1], 1, Len(FixtureBytes[1]) - EOCD_SIZE),
       Zeros(BigSize - EOCD_WINDOW - 1) \o Decoy \o Zeros(EOCD_WINDOW - 3),
       Zeros(BigSize - EOCD_WINDOW) \o Decoy \o Zeros(EOCD_WINDOW - 4) >>

QueryNames ==
    { N_a_txt, N_b_bin, N_missing, N_a, N_b, N_c, << >>,
      SubSeq(LongName, 1, NAME_BUF_SIZE - 1) }

CreateInputs ==
    { [filenames |-> << N_a_txt, N_b_bin >>, datas |-> << P_hi, << 0, 1, 2, 3 >> >>],
      [filenames |-> << N_a >>, datas |-> << << 7 >> >>],
      [filenames |-> << N_b, N_a >>, datas |-> << << >>, << 5, 6 >> >>],
      [filenames |-> << >>, datas |-> << >>] }

\* the serialized size by the format: 30 + name + payload per local record,
\* 46 + name per central record, 22 for the end record
FormatSize(inp) ==
    LET n == Len(inp.filenames)
    IN  Sum([k \in 1..n |-> 30 + Len(inp.filenames[k]) + Len(inp.datas[k])], n)
          + Sum([k \in 1..n |-> 46 + Len(inp.filenames[k])], n) + 22

\* destination capacities tried for an input: around the format size and
\* the few bytes below it, around the first local record, and ample
CreateCaps(inp) ==
    { c \in { FormatSize(inp) + d : d \in {-5, -4, -3, -2, -1, 0, 2} }
              \cup (IF Len(inp.filenames) = 0 THEN {}
                    ELSE { 30 + Len(inp.filenames[1]) + Len(inp.datas[1]) }) :
        c >= 0 }

Fill(n) == [k \in 1..n |-> 170]

(***************************************************************************)
(* Inputs of the HTTP client: the calls made and what the peer answers.    *)
(***************************************************************************)
\* "GET", "POST"
M_GET == << 71, 69, 84 >>
M_POST == << 80, 79, 83, 84 >>

\* "http://a/x", "http://a:8080", "http://a", "https://a/", "http://",
\* "http://a:70000/", "ftp://a/", "http", ""
Urls ==
    { << 104, 116, 116, 112, 58, 47, 47, 97, 47, 120 >>,
      << 104, 116, 116, 112, 58, 47, 47, 97, 58, 56, 48, 56, 48 >>,
      << 104, 116, 116, 112, 58, 47, 47, 97 >>,
      << 104, 116, 116, 112, 115, 58, 47, 47, 97, 47 >>,
      << 104, 116, 116, 112, 58, 47, 47 >>,
      << 104, 116, 116, 112, 58, 47, 47, 97, 58, 55, 48, 48, 48, 48, 47 >>,
      << 102, 116, 112, 58, 47, 47, 97, 47 >>,
      << 104, 116, 116, 112 >>,
      << >> }

\* what the peer sends before it closes the connection:
\*   "HTTP/1.1 200 OK\r\n\r\nhi", "HTTP/1.1  404 NF\r\nA: b", "hello, world!",
\*   "HTTP/1.1 2", nothing
Responses ==
    { << 72, 84, 84, 80, 47, 49, 46, 49, 32, 50, 48, 48, 32, 79, 75, 13, 10, 13, 10, 104, 105 >>,
      << 72, 84, 84, 80, 47, 49, 46, 49, 32, 32, 52, 48, 52, 32, 78, 70, 13, 10, 65, 58, 32, 98 >>,
      << 104, 101, 108, 108, 111, 44, 32, 119, 111, 114, 108, 100, 33 >>,
      << 72, 84, 84, 80, 47, 49, 46, 49, 32, 50 >>,
      << >> }

\* the capacities of response_buffer tried
BufferSizes == { 0, 13, 21, 40 }

\* the value behind status before the call
STATUS_BEFORE == 77

\* the most bytes one recv delivers, when it does not deliver all there is
MaxChunk == 9

HttpCalls ==
    { c \in [method : { M_GET, M_POST }, url : Urls, url_null : BOOLEAN,
             buffer_null : BOOLEAN, out_null : BOOLEAN, status_null : BOOLEAN,
             body_null : BOOLEAN, body_len : { 0, 2 },
             buffer_size : BufferSizes, status0 : { STATUS_BEFORE },
             out0 : { [NoResponse EXCEPT !.status_code = STATUS_BEFORE] }] :
        \* at most one NULL among the pointer arguments; GET has no body
        /\ Cardinality({ f \in { "url_null", "buffer_null", "out_null",
                                 "status_null" } : c[f] }) <= 1
        /\ c.url_null => c.url = << >>
        /\ c.method = M_GET => (c.body_null /\ c.body_len = 0) }

\* the arguments before any call
NoCall ==
    [method |-> << >>, url |-> << >>, url_null |-> FALSE, buffer_null |-> FALSE,
     out_null |-> FALSE, status_null |-> FALSE, body_null |-> TRUE,
     body_len |-> 0, buffer_size |-> 0, status0 |-> STATUS_BEFORE,
     out0 |-> [NoResponse EXCEPT !.status_code = STATUS_BEFORE]]

HttpIdle ==
    [pc |-> "idle", call |-> NoCall, host |-> << >>, port |-> 0, path |-> << >>,
     wire |-> << >>, buf |-> << >>, status |-> STATUS_BEFORE,
     out |-> NoResponse, ret |-> 0, fault |-> "none"]

(***************************************************************************)
(* State.                                                                  *)
(*   pas_zip__handle, pas_zip__current_file, pas_zip__name_buf:            *)
(*            the statics of the implementation                            *)
(*   zip, file: the pointers the caller holds from open and find           *)
(*   made:    the arguments and the outcome of the last pas_zip_create     *)
(*   last:    the last call, its arguments and what it returned            *)
(*   hsrc:    which input the bytes behind pas_zip__handle.data are        *)
(*   http:    the call of the HTTP client in progress (pas_http1.h)        *)
(*   fsrc:    where and under which query pas_zip__current_file was found, *)
(*            and what the caller read through the returned pointer then   *)
(***************************************************************************)
VARIABLES pas_zip__handle, pas_zip__current_file, pas_zip__name_buf,
          zip, file, made, last, hsrc, fsrc, http

zip_vars == << pas_zip__handle, pas_zip__current_file, pas_zip__name_buf,
               zip, file, made, last, hsrc, fsrc >>

vars == << zip_vars, http >>

NoInput == [filenames |-> << >>, datas |-> << >>]
NoSource == [kind |-> "none", k |-> 0, inp |-> NoInput]

\* the zero-initialised pas_zip__current_file
NoFile == [name |-> NULL, compression_method |-> 0,
           compressed_size |-> ToU32(0), uncompressed_size |-> ToU32(0),
           local_header_offset |-> ToU32(0)]

Init ==
    /\ pas_zip__handle = NoHandle
    /\ pas_zip__current_file = NoFile
    /\ pas_zip__name_buf = << >>
    /\ zip = NULL
    /\ file = NULL
    /\ made = [called |-> FALSE, inp |-> NoInput, buffer_size |-> 0,
               args |-> "valid", mem |-> << >>, ret |-> 0,
               status |-> PAS_ZIP_OK, written |-> 0]
    /\ last = [op |-> "none"]
    /\ hsrc = NoSource
    /\ fsrc = [src |-> NoSource, query |-> << >>, entry |-> NoFile,
               name |-> << >>]
    /\ http = HttpIdle

\* the caller's sizes[] array for an input
SizesOf(inp) == [k \in 1..Len(inp.datas) |-> Len(inp.datas[k])]

\* every create call of the input sets with what it returns: the call does
\* not read the program's state, so its outcomes are tabulated once
\* (args "valid"), and with a NULL pointer argument or a negative file_count
\* in front of a destination of ample size
CreateCalls ==
    UNION { { [inp |-> inp, cap |-> cap, args |-> "valid",
               r |-> pas_zip_create(FALSE, inp.filenames, inp.datas,
                                    SizesOf(inp), Len(inp.filenames),
                                    Fill(cap), cap)] : cap \in CreateCaps(inp) }
            : inp \in CreateInputs }
      \cup
    { [inp |-> inp, cap |-> FormatSize(inp), args |-> "null",
       r |-> pas_zip_create(TRUE, inp.filenames, inp.datas, SizesOf(inp),
                            Len(inp.filenames), Fill(FormatSize(inp)),
                            FormatSize(inp))] : inp \in CreateInputs }
      \cup
    { [inp |-> inp, cap |-> FormatSize(inp), args |-> "negative",
       r |-> pas_zip_create(FALSE, inp.filenames, inp.datas, SizesOf(inp),
                            -1, Fill(FormatSize(inp)), FormatSize(inp))]
        : inp \in { c \in CreateInputs : Len(c.filenames) = 1 } }

\* an extract has ended the program
Crashed == last.op = "extract" /\ last.crashed

\* A run builds at most one archive, before it opens anything; a run that
\* built one reads only that archive and the buffers that are no archives.
Create ==
    /\ ~made.called
    /\ last.op = "none"
    /\ \E c \in CreateCalls :
        /\ made' = [called |-> TRUE, inp |-> c.inp, buffer_size |-> c.cap,
                    args |-> c.args, mem |-> c.r.mem, ret |-> c.r.ret, status |-> c.r.status,
                    written |-> c.r.written]
        /\ last' = [op |-> "create"]
        /\ UNCHANGED << pas_zip__handle, pas_zip__current_file,
                        pas_zip__name_buf, zip, file, hsrc, fsrc, http >>

\* the archive the last successful create left in its buffer
MadeBytes == SubSeq(made.mem, 1, made.ret)

\* every buffer a run may open, with what pas_zip_open returns for it: the
\* call reads nothing but its arguments, so its outcomes are tabulated once
OpenCalls ==
    { [src |-> [kind |-> "fixture", k |-> k, inp |-> NoInput],
       size |-> Len(FixtureBytes[k]),
       r |-> pas_zip_open(FixtureBytes[k], Len(FixtureBytes[k]))]
        : k \in 1..Len(Fixtures) }
      \cup
    { [src |-> [kind |-> "raw", k |-> k, inp |-> NoInput],
       size |-> Len(RawBuffers[k]),
       r |-> pas_zip_open(RawBuffers[k], Len(RawBuffers[k]))]
        : k \in 1..Len(RawBuffers) }
      \cup
    { [src |-> [kind |-> "made", k |-> 0, inp |-> c.inp],
       size |-> c.r.ret,
       r |-> pas_zip_open(SubSeq(c.r.mem, 1, c.r.ret), c.r.ret)]
        : c \in { x \in CreateCalls : x.r.ret > 0 } }

BytesOf(src) ==
    IF src.kind = "fixture" THEN FixtureBytes[src.k]
    ELSE IF src.kind = "raw" THEN RawBuffers[src.k]
    ELSE MadeBytes

\* A buffer longer than the search window of find_eocd is opened only as
\* the first call of a run.
Open ==
    \E o \in OpenCalls :
        /\ ~Crashed
        /\ o.src.kind = "fixture" => ~made.called
        /\ (o.src.kind = "raw" /\ o.size > EOCD_WINDOW) => last.op = "none"
        /\ o.src.kind = "made" => (made.ret > 0 /\ o.src.inp = made.inp)
        /\ pas_zip__handle' = IF o.r.ret # NULL THEN o.r.handle
                              ELSE pas_zip__handle
        /\ zip' = IF o.r.ret # NULL THEN o.r.ret ELSE zip
        /\ hsrc' = IF o.r.ret # NULL THEN o.src ELSE hsrc
        /\ last' = [op |-> "open", src |-> o.src, size |-> o.size,
                    ret |-> o.r.ret, status |-> o.r.status,
                    at |-> o.r.at, low |-> o.r.low]
        /\ UNCHANGED << pas_zip__current_file, pas_zip__name_buf, file,
                        made, fsrc, http >>

Find ==
    /\ zip # NULL
    /\ ~Crashed
    /\ \E name \in QueryNames :
        LET r == pas_zip_find(pas_zip__handle, name, pas_zip__current_file,
                              pas_zip__name_buf)
        IN  /\ pas_zip__current_file' = r.current_file
            /\ pas_zip__name_buf' = r.name_buf
            /\ file' = IF r.ret # NULL THEN r.ret ELSE file
            /\ fsrc' = IF r.ret # NULL
                       THEN [src |-> hsrc, query |-> name,
                             entry |-> r.current_file,
                             name |-> CStr(r.name_buf)]
                       ELSE fsrc
            /\ last' = [op |-> "find", name |-> name, ret |-> r.ret,
                        reads |-> r.reads]
            /\ UNCHANGED << pas_zip__handle, zip, made, hsrc, http >>

\* the destination sizes a caller tries for the entry it holds: the small
\* ones, and one of exactly the size the entry declares
DestSizes ==
    (0..MaxDest)
      \cup (IF GtW(pas_zip__current_file.uncompressed_size, pas_zip__handle.size)
            THEN {} ELSE { Val(pas_zip__current_file.uncompressed_size) })

Extract ==
    /\ file # NULL
    /\ ~Crashed
    /\ \E buffer_size \in DestSizes :
        LET inside == ~HeaderReadOutside(pas_zip__handle, pas_zip__current_file)
            rs == IF inside
                  THEN { pas_zip_extract(pas_zip__handle, pas_zip__current_file,
                                         Fill(buffer_size), buffer_size) }
                  ELSE { pas_zip_extract_payload(pas_zip__handle,
                             pas_zip__current_file, Fill(buffer_size),
                             buffer_size, po) : po \in ForeignHeaderReturns }
        IN  /\ \/ \E r \in rs :
                    last' = [op |-> "extract", buffer_size |-> buffer_size,
                             ret |-> r.ret, status |-> r.status, mem |-> r.mem,
                             overrun |-> r.overrun, copied |-> r.copied,
                             oob |-> ~inside, crashed |-> FALSE]
               \* the read outside the archive ends the program, behind
               \* the store of PAS_ZIP_E_INVALID to *status
               \/ /\ ~inside
                  /\ last' = [op |-> "extract", buffer_size |-> buffer_size,
                              ret |-> 0, status |-> PAS_ZIP_E_INVALID,
                              mem |-> Fill(buffer_size), overrun |-> 0,
                              copied |-> 0, oob |-> TRUE, crashed |-> TRUE]
               \* so may the memcpy that stores behind the end of the
               \* destination, in front of the store of PAS_ZIP_OK
               \/ \E r \in rs :
                    /\ r.overrun > 0
                    /\ last' = [op |-> "extract", buffer_size |-> buffer_size,
                                ret |-> 0, status |-> PAS_ZIP_E_INVALID,
                                mem |-> r.mem, overrun |-> r.overrun,
                                copied |-> r.copied, oob |-> ~inside,
                                crashed |-> TRUE]
            /\ UNCHANGED << pas_zip__handle, pas_zip__current_file,
                            pas_zip__name_buf, zip, file, made, hsrc, fsrc, http >>

List ==
    /\ zip # NULL
    /\ ~Crashed
    /\ LET r == pas_zip_list(pas_zip__handle, pas_zip__name_buf)
       IN  /\ pas_zip__name_buf' = r.name_buf
           /\ last' = [op |-> "list", ret |-> r.ret, calls |-> r.calls,
                    reads |-> r.reads]
           /\ UNCHANGED << pas_zip__handle, pas_zip__current_file, zip, file,
                           made, hsrc, fsrc, http >>

Next == Create \/ Open \/ Find \/ Extract \/ List

Spec == Init /\ [][Next]_vars

(***************************************************************************)
(* The HTTP client: one call of pas_http_get or pas_http_post, taken from  *)
(* one system call to the next.  http holds the call's arguments (call),   *)
(* its position (pc), the locals host/port/path, the bytes the peer still  *)
(* has to deliver (wire), the bytes received into response_buffer (buf),   *)
(* the values behind the status and out_response pointers, the returned    *)
(* value (ret, meaningful at pc = "done") and the failure the environment  *)
(* injected (fault).                                                       *)
(***************************************************************************)
\* the call returns code, leaving st behind the status pointer
HttpReturn(code, st, out, fault) ==
    http' = [http EXCEPT !.pc = "done", !.ret = code, !.status = st,
                         !.out = out, !.fault = fault]

HttpCall ==
    /\ http.pc = "idle"
    /\ \E c \in HttpCalls, w \in Responses :
         LET e == pas_http_enter(c)
         IN  http' = [http EXCEPT !.pc = IF e.returned THEN "done" ELSE "resolve",
                                  !.ret = e.ret, !.status = e.status,
                                  !.out = e.out, !.host = e.host,
                                  !.port = e.port, !.path = e.path,
                                  !.wire = IF e.returned THEN << >> ELSE w,
                                  !.call = c]
    /\ UNCHANGED zip_vars

\* getaddrinfo
HttpResolve ==
    /\ http.pc = "resolve"
    /\ \/ http' = [http EXCEPT !.pc = "socket"]
       \/ HttpReturn(PAS_HTTP_E_CONNECTION, PAS_HTTP_E_CONNECTION, http.out,
                     "resolve")
    /\ UNCHANGED zip_vars

\* socket and the two setsockopt
HttpSocket ==
    /\ http.pc = "socket"
    /\ \/ http' = [http EXCEPT !.pc = "connect"]
       \/ HttpReturn(PAS_HTTP_E_CONNECTION, PAS_HTTP_E_CONNECTION, http.out,
                     "socket")
    /\ UNCHANGED zip_vars

HttpConnect ==
    /\ http.pc = "connect"
    /\ \/ http' = [http EXCEPT !.pc = "send"]
       \/ HttpReturn(PAS_HTTP_E_CONNECTION, PAS_HTTP_E_CONNECTION, http.out,
                     "connect")
    /\ UNCHANGED zip_vars

\* snprintf of the request head, send of the head, send of the body;
\* head_sent and body_sent say whether send took all it was given
HttpSend ==
    /\ http.pc = "send"
    /\ \E head_sent \in BOOLEAN, body_sent \in BOOLEAN :
         LET c == http.call
             req_len == RequestLen(c.method, http.host, http.path,
                                   c.body_null, c.body_len)
         IN  IF req_len <= 0 \/ req_len >= REQ_BUF_SIZE
             THEN HttpReturn(PAS_HTTP_E_CONNECTION, PAS_HTTP_E_CONNECTION,
                             http.out, "format")
             ELSE IF ~head_sent
             THEN HttpReturn(PAS_HTTP_E_CONNECTION, PAS_HTTP_E_CONNECTION,
                             http.out, "send")
             ELSE IF ~c.body_null /\ c.body_len > 0 /\ ~body_sent
             THEN HttpReturn(PAS_HTTP_E_CONNECTION, PAS_HTTP_E_CONNECTION,
                             http.out, "send")
             ELSE http' = [http EXCEPT !.pc = "recv"]
    /\ UNCHANGED zip_vars

\* one pass of the receive loop, and what follows the loop when it ends.
\* recv delivers r > 0 bytes of what the peer still has, 0 when the peer
\* has closed, or fails with EAGAIN / with another error.
HttpRecv ==
    /\ http.pc = "recv"
    /\ LET c == http.call
           to_read == c.buffer_size - Len(http.buf)
           avail == Min(to_read, Len(http.wire))
           done(buf, wire) ==
               LET f == pas_http_finish(buf, c.buffer_size, http.out, http.status)
               IN  http' = [http EXCEPT !.pc = "done", !.buf = buf,
                                        !.wire = wire, !.ret = f.ret,
                                        !.status = f.status, !.out = f.out]
       IN  \/ \E r \in { avail, Min(avail, MaxChunk) } :
                /\ r > 0
                /\ LET buf == http.buf \o SubSeq(http.wire, 1, r)
                       wire == SubSeq(http.wire, r + 1, Len(http.wire))
                   IN  IF Len(buf) < c.buffer_size
                       THEN http' = [http EXCEPT !.buf = buf, !.wire = wire]
                       ELSE done(buf, wire)
           \/ /\ Len(http.wire) = 0
              /\ done(http.buf, http.wire)
           \/ HttpReturn(PAS_HTTP_E_TIMEOUT, PAS_HTTP_E_TIMEOUT, http.out,
                         "timeout")
           \/ LET f == pas_http_finish(http.buf, c.buffer_size, http.out,
                                       http.status)
              IN  http' = [http EXCEPT !.pc = "done", !.ret = f.ret,
                                       !.status = f.status, !.out = f.out,
                                       !.fault = "recv"]
    /\ UNCHANGED zip_vars

HttpNext ==
    HttpCall \/ HttpResolve \/ HttpSocket \/ HttpConnect \/ HttpSend \/ HttpRecv

SpecHttp == Init /\ [][HttpNext]_vars

(***************************************************************************)
(* What the claims are stated against: the description a hand-made archive *)
(* was laid out from, and the arguments of the create call.                *)
(***************************************************************************)
\* the hand-made archive behind the handle
OpenedFx == Fixtures[hsrc.k]

\* the handle holds what the true end record of the opened hand-made archive says
HandleIsTrue ==
    /\ hsrc.kind = "fixture"
    /\ pas_zip__handle.data = FixtureBytes[hsrc.k]
    /\ pas_zip__handle.cd_offset = FxCdOffset(OpenedFx)
    /\ pas_zip__handle.num_entries = Len(OpenedFx.entries)

\* the name an entry carries once parsed: the stored filename cut to the
\* capacity of the name field and read as a C string
ParsedName(e) == CStr(SubSeq(e.name, 1, Min(Len(e.name), NAME_BUF_SIZE - 1)))

\* the central record of a hand-made entry parses: its signature is the
\* central one and it declares no more file comment than it carries
ParsesFx(e) == e.sig = PAS_ZIP_CDH_SIG /\ e.clen = -1

WellFormedEntry(e) ==
    /\ ParsesFx(e)
    /\ e.lho = TrueOffset
    /\ e.method = PAS_ZIP_METHOD_STORE => (e.csize = Len(e.payload) /\ e.usize = e.csize)

\* an archive laid out by the format throughout, with a truthful end record
WellFormedFx(fx) ==
    /\ fx.count = -1
    /\ fx.cd_offset = -1
    /\ \A k \in 1..Len(fx.entries) : WellFormedEntry(fx.entries[k])

\* s occurs in t as a run of consecutive bytes
Occurs(s, t) ==
    \E i \in 0..(Len(t) - Len(s)) : SubSeq(t, i + 1, i + Len(s)) = s

HasCommentDecoy(fx) ==
    \/ Occurs(Decoy, fx.comment)
    \/ \E k \in 1..Len(fx.entries) : Occurs(Decoy, fx.entries[k].comment)

\* the entries of the opened hand-made archive before its first malformed record
ValidPrefix(entries) ==
    IF \A k \in 1..Len(entries) : ParsesFx(entries[k])
    THEN Len(entries)
    ELSE (CHOOSE k \in 1..Len(entries) :
            /\ ~ParsesFx(entries[k])
            /\ \A j \in 1..(k - 1) : ParsesFx(entries[j])) - 1

\* the entry pas_zip__current_file holds is entry k of the opened archive
FileIsEntry(entries, k) ==
    /\ pas_zip__current_file.compression_method = entries[k].method
    /\ pas_zip__current_file.compressed_size = ToU32(entries[k].csize)
    /\ pas_zip__current_file.uncompressed_size = ToU32(entries[k].usize)
    /\ pas_zip__current_file.local_header_offset
         = (IF entries[k].lho = TrueOffset
            THEN ToU32(FxLocalOffset(entries, k)) ELSE entries[k].lho)

\* the current entry was found in the archive the handle still points to
FileOfHandle == file # NULL /\ fsrc.src = hsrc

\* the input of the documented scenario
Scenario ==
    [filenames |-> << N_a_txt, N_b_bin >>, datas |-> << P_hi, << 0, 1, 2, 3 >> >>]

(***************************************************************************)
(* C1 (as claimed): round trip.  For a non-empty list of entries with      *)
(* distinct, non-empty, NUL-free names and a destination at least as large *)
(* as the serialized size: create succeeds, open of the produced bytes     *)
(* succeeds, find of every name of the list returns an entry, and extract  *)
(* of it into a buffer of the payload's length returns OK and exactly the  *)
(* payload.                                                                *)
(***************************************************************************)
C1_RoundTrip ==
    LET inp == made.inp
        n == Len(inp.filenames)
    IN  /\ (last.op = "create" /\ made.args = "valid" /\ n >= 1
              /\ made.buffer_size >= FormatSize(inp))
              => (made.status = PAS_ZIP_OK /\ made.ret > 0)
        /\ (last.op = "open" /\ last.src.kind = "made")
              => (last.ret # NULL /\ last.status = PAS_ZIP_OK)
        /\ (last.op = "find" /\ hsrc.kind = "made"
              /\ \E k \in 1..n : inp.filenames[k] = last.name)
              => last.ret # NULL
        /\ \A k \in 1..n :
              (last.op = "extract" /\ hsrc.kind = "made" /\ FileOfHandle
                 /\ fsrc.query = inp.filenames[k]
                 /\ last.buffer_size = Len(inp.datas[k]))
              => (last.status = PAS_ZIP_OK /\ last.mem = inp.datas[k])

(***************************************************************************)
(* C2 (as claimed): a successful extract of a Store entry copies the       *)
(* compressed_size bytes archive[payload_start .. payload_start +          *)
(* compressed_size), payload_start = local_header_offset + 30 + fn_len +   *)
(* extra_len of the local header at local_header_offset, at every          *)
(* local_header_offset.                                                    *)
(***************************************************************************)
C2_StorePayloadStart ==
    (last.op = "extract" /\ last.status = PAS_ZIP_OK /\ ~last.oob
       /\ pas_zip__current_file.compression_method = PAS_ZIP_METHOD_STORE)
    => LET data == pas_zip__handle.data
           off == Val(pas_zip__current_file.local_header_offset)
           csize == Val(pas_zip__current_file.compressed_size)
           payload_start == off + 30 + read_u16_le(data, off + 26)
                                + read_u16_le(data, off + 28)
       IN  /\ read_u32_le(data, off) = Sig(PAS_ZIP_LFH_SIG)
           /\ payload_start + csize <= pas_zip__handle.size
           /\ csize <= last.buffer_size
           /\ SubSeq(last.mem, 1, csize)
                = SubSeq(data, payload_start + 1, payload_start + csize)

(***************************************************************************)
(* C3 (as claimed): after a successful create of N entries open succeeds   *)
(* and reports N entries; for the documented scenario open reports 2,      *)
(* find("a.txt") + extract yields exactly the two bytes "hi" and           *)
(* find("missing") returns NULL.                                           *)
(***************************************************************************)
C3_Scenario ==
    /\ (last.op = "open" /\ last.src.kind = "made")
          => /\ last.status = PAS_ZIP_OK
             /\ pas_zip__handle.num_entries = Len(made.inp.filenames)
    /\ (hsrc.kind = "made" /\ made.inp = Scenario /\ last.op = "find")
          => /\ last.name = N_a_txt => last.ret # NULL
             /\ last.name = N_missing => last.ret = NULL
    /\ (hsrc.kind = "made" /\ made.inp = Scenario /\ last.op = "extract"
          /\ FileOfHandle /\ fsrc.query = N_a_txt /\ last.buffer_size = 2)
          => (last.ret = 2 /\ last.status = PAS_ZIP_OK /\ last.mem = P_hi)

(***************************************************************************)
(* C4 (as claimed): lookup miss.  find returns NULL whenever no entry of   *)
(* the central directory has a filename byte-for-byte equal to the query.  *)
(***************************************************************************)
C4_LookupMiss ==
    (last.op = "find" /\ HandleIsTrue
       /\ \A k \in 1..Len(OpenedFx.entries) : OpenedFx.entries[k].name # last.name)
    => last.ret = NULL

(***************************************************************************)
(* C5 (as claimed): with a decoy end-record signature inside a comment     *)
(* field next to the true end record, open reports the entry count and the *)
(* directory offset of the true end record.                                *)
(***************************************************************************)
C5_DecoyNotMatched ==
    (last.op = "open" /\ last.src.kind = "fixture"
       /\ WellFormedFx(Fixtures[last.src.k])
       /\ HasCommentDecoy(Fixtures[last.src.k]))
    => /\ last.ret # NULL
       /\ pas_zip__handle.num_entries = Len(Fixtures[last.src.k].entries)
       /\ pas_zip__handle.cd_offset = FxCdOffset(Fixtures[last.src.k])

(***************************************************************************)
(* C6: NoSpace boundary.  For a Store entry of uncompressed_size U found   *)
(* in a well-formed archive, extract into a buffer of U bytes returns U    *)
(* with status OK and stays inside the buffer; into a buffer of U - 1      *)
(* bytes it returns 0 with PAS_ZIP_E_NOSPACE and the buffer is untouched.  *)
(***************************************************************************)
C6_NoSpaceBoundary ==
    (last.op = "extract" /\ HandleIsTrue /\ WellFormedFx(OpenedFx) /\ FileOfHandle
       /\ pas_zip__current_file.compression_method = PAS_ZIP_METHOD_STORE)
    => LET U == Val(pas_zip__current_file.uncompressed_size)
       IN  /\ last.buffer_size = U
                => /\ last.status = PAS_ZIP_OK
                   /\ last.ret = U
                   /\ last.overrun = 0
           /\ (U >= 1 /\ last.buffer_size = U - 1)
                => /\ last.ret = 0
                   /\ last.status = PAS_ZIP_E_NOSPACE
                   /\ last.mem = Fill(U - 1)
                   /\ last.overrun = 0

\* an entry beyond the first, of at least 2 bytes, refused for one byte
C6_Witness ==
    /\ last.op = "extract" /\ HandleIsTrue /\ WellFormedFx(OpenedFx) /\ FileOfHandle
    /\ pas_zip__current_file.compression_method = PAS_ZIP_METHOD_STORE
    /\ Val(pas_zip__current_file.local_header_offset) > 0
    /\ Val(pas_zip__current_file.uncompressed_size) >= 2
    /\ last.buffer_size = Val(pas_zip__current_file.uncompressed_size) - 1
    /\ last.status = PAS_ZIP_E_NOSPACE

(***************************************************************************)
(* C7: a handle returned by a successful open has cd_offset < size, and a  *)
(* buffer whose located end record declares cd_offset >= size is rejected  *)
(* with NULL and PAS_ZIP_E_INVALID.                                        *)
(***************************************************************************)
\* the positions of the search window that can hold a whole end record
EocdCandidates(data, size) ==
    { i \in Max(0, size - EOCD_WINDOW)..(size - EOCD_SIZE) :
        read_u32_le(data, i) = Sig(PAS_ZIP_EOCD_SIG) }

\* the located end record (the candidate closest to the end) declares a
\* directory offset that is not below the buffer size
LocatedOutOfBounds(data, size) ==
    /\ EocdCandidates(data, size) # {}
    /\ LET i == CHOOSE h \in EocdCandidates(data, size) :
                   \A g \in EocdCandidates(data, size) : g <= h
       IN  GeW(read_u32_le(data, i + 16), size)

C7_CdOffsetBelowSize ==
    /\ zip # NULL => pas_zip__handle.cd_offset < pas_zip__handle.size
    /\ (last.op = "open" /\ LocatedOutOfBounds(BytesOf(last.src), last.size))
          => (last.ret = NULL /\ last.status = PAS_ZIP_E_INVALID)

C7_Witness ==
    /\ last.op = "open"
    /\ LocatedOutOfBounds(BytesOf(last.src), last.size)
    /\ last.ret = NULL

(***************************************************************************)
(* C8: open returns NULL with PAS_ZIP_E_INVALID when the buffer is shorter *)
(* than 22 bytes or holds no end-record signature at any position of the   *)
(* search window, the last min(size, 65557) bytes of the buffer.           *)
(***************************************************************************)
NoSigInWindow(data, size) ==
    \A i \in Max(0, size - EOCD_WINDOW)..(size - 4) :
        read_u32_le(data, i) # Sig(PAS_ZIP_EOCD_SIG)

C8_OpenRejects ==
    (last.op = "open"
       /\ (last.size < 22 \/ NoSigInWindow(BytesOf(last.src), last.size)))
    => (last.ret = NULL /\ last.status = PAS_ZIP_E_INVALID)

\* a buffer longer than an end record, with local and central signatures
\* but no end-record signature, has been refused
C8_Witness ==
    /\ last.op = "open"
    /\ last.size > 22
    /\ NoSigInWindow(BytesOf(last.src), last.size)
    /\ last.ret = NULL

(***************************************************************************)
(* C9: find returns the first entry, in central-directory order, whose     *)
(* name matches the query when every record before it is well-formed; a    *)
(* malformed record met before any match ends the scan and find returns    *)
(* NULL, also when a matching record follows it.                           *)
(***************************************************************************)
C9_FirstMatch ==
    (last.op = "find" /\ HandleIsTrue)
    => LET es == OpenedFx.entries
           v == ValidPrefix(es)
           hits == { k \in 1..v : ParsedName(es[k]) = last.name }
       IN  IF hits # {}
           THEN LET k == CHOOSE h \in hits : \A g \in hits : h <= g
                IN  /\ last.ret # NULL
                    /\ FileIsEntry(es, k)
                    /\ CStr(pas_zip__name_buf) = last.name
           ELSE v < Len(es) => last.ret = NULL

\* a matching record follows a malformed one and find has returned NULL
C9_Witness ==
    /\ last.op = "find" /\ HandleIsTrue
    /\ LET es == OpenedFx.entries
           v == ValidPrefix(es)
       IN  /\ v < Len(es)
           /\ \A k \in 1..v : ParsedName(es[k]) # last.name
           /\ \E k \in (v + 2)..Len(es) : ParsedName(es[k]) = last.name
    /\ last.ret = NULL

(***************************************************************************)
(* C10: list calls the callback once per well-formed entry, in directory   *)
(* order, with the entry's name and uncompressed size; at the first        *)
(* malformed record it stops, calls back for no later record and returns   *)
(* -1, and the calls made before stand.                                    *)
(***************************************************************************)
C10_ListCalls ==
    (last.op = "list" /\ HandleIsTrue)
    => LET es == OpenedFx.entries
           v == ValidPrefix(es)
       IN  /\ Len(last.calls) = v
           /\ \A k \in 1..v :
                 last.calls[k] = << ParsedName(es[k]), ToU32(es[k].usize) >>
           /\ v < Len(es) => last.ret = -1

\* a list that delivered an entry, then met a malformed record with a
\* well-formed one behind it
C10_Witness ==
    /\ last.op = "list" /\ HandleIsTrue
    /\ LET es == OpenedFx.entries
           v == ValidPrefix(es)
       IN  v >= 1 /\ v + 1 < Len(es) /\ Len(last.calls) = v
    /\ last.ret = -1

(***************************************************************************)
(* What the format says about the entry the caller holds, read from the    *)
(* archive behind the handle.                                              *)
(***************************************************************************)
\* local_header_offset + 30 + fn_len + extra_len of the entry's local header
PayloadStart ==
    LET off == Val(pas_zip__current_file.local_header_offset)
    IN  off + LFH_SIZE + read_u16_le(pas_zip__handle.data, off + 26)
            + read_u16_le(pas_zip__handle.data, off + 28)

\* the last call was an extract of an entry of the archive still open, a
\* hand-made archive opened by its true end record, and the entry's local
\* header lies inside the archive
ExtractedHere ==
    /\ last.op = "extract" /\ HandleIsTrue /\ FileOfHandle
    /\ ~GtW(pas_zip__current_file.local_header_offset,
            pas_zip__handle.size - LFH_SIZE)

\* the checks in front of the method dispatch pass: the payload the entry
\* declares lies inside the archive and the destination holds its
\* uncompressed_size
ReachesDispatch ==
    /\ PayloadStart + Val(pas_zip__current_file.compressed_size)
         <= pas_zip__handle.size
    /\ Val(pas_zip__current_file.uncompressed_size) <= last.buffer_size

(***************************************************************************)
(* C11 (as claimed): truncated archive.  For an entry at any               *)
(* local_header_offset, extract returns 0 with PAS_ZIP_E_INVALID and       *)
(* leaves the destination untouched whenever payload_start +               *)
(* compressed_size exceeds the archive size.                               *)
(***************************************************************************)
C11_Truncated ==
    (ExtractedHere
       /\ PayloadStart + Val(pas_zip__current_file.compressed_size)
            > pas_zip__handle.size)
    => /\ last.ret = 0
       /\ last.status = PAS_ZIP_E_INVALID
       /\ last.mem = Fill(last.buffer_size)

CreatedOk == made.called /\ made.ret > 0

\* the offset of local record k when every record before it is 30 header
\* bytes, the filename and the payload
FormatLocalOffset(inp, k) ==
    Sum([j \in 1..Len(inp.filenames) |->
            LFH_SIZE + Len(inp.filenames[j]) + Len(inp.datas[j])], k - 1)

\* the first offset of the output that holds the signature sig, -1 if none
FirstSig(sig) ==
    LET hits == { i \in 0..(made.ret - 4) : read_u32_le(made.mem, i) = Sig(sig) }
    IN  IF hits = {} THEN -1
        ELSE CHOOSE h \in hits : \A g \in hits : h <= g

\* the offset of central record k when the directory starts at cd0 and
\* every record before it is 46 header bytes and the filename
FormatCentralOffset(inp, cd0, k) ==
    cd0 + Sum([j \in 1..Len(inp.filenames) |->
                  CDH_SIZE + Len(inp.filenames[j])], k - 1)

(***************************************************************************)
(* C14 (as claimed): for each input entry, in input order, create emits a  *)
(* local record of exactly 30 header bytes, the filename and the payload,  *)
(* with signature at 0, method 0 at 8, compressed_size at 18 and           *)
(* uncompressed_size at 22 equal to the payload length, fn_len at 26 and   *)
(* extra_len 0 at 28.                                                      *)
(***************************************************************************)
C14_LocalRecords ==
    CreatedOk =>
      \A k \in 1..Len(made.inp.filenames) :
        LET off == FormatLocalOffset(made.inp, k)
            name == made.inp.filenames[k]
            payload == made.inp.datas[k]
        IN  /\ read_u32_le(made.mem, off) = Sig(PAS_ZIP_LFH_SIG)
            /\ read_u16_le(made.mem, off + 8) = PAS_ZIP_METHOD_STORE
            /\ read_u32_le(made.mem, off + 18) = ToU32(Len(payload))
            /\ read_u32_le(made.mem, off + 22) = ToU32(Len(payload))
            /\ read_u16_le(made.mem, off + 26) = Len(name)
            /\ read_u16_le(made.mem, off + 28) = 0
            /\ SubSeq(made.mem, off + LFH_SIZE + 1, off + LFH_SIZE + Len(name))
                 = name
            /\ SubSeq(made.mem, off + LFH_SIZE + Len(name) + 1,
                      off + LFH_SIZE + Len(name) + Len(payload)) = payload

(***************************************************************************)
(* C15 (as claimed): behind the local records create emits, per input      *)
(* entry and in input order, a central record of exactly 46 header bytes   *)
(* and the filename, with method at 10, compressed_size at 20,             *)
(* uncompressed_size at 24, fn_len at 28 and, at 42, the offset at which   *)
(* the entry's local header begins.  The directory is taken to start where *)
(* the output first holds the central signature, and the first local       *)
(* header at offset 0.                                                     *)
(***************************************************************************)
C15_CentralRecords ==
    CreatedOk =>
      /\ FirstSig(PAS_ZIP_CDH_SIG) >= 0
      /\ \A k \in 1..Len(made.inp.filenames) :
           LET p == FormatCentralOffset(made.inp, FirstSig(PAS_ZIP_CDH_SIG), k)
               name == made.inp.filenames[k]
               payload == made.inp.datas[k]
           IN  /\ p + CDH_SIZE + Len(name) <= made.ret
               /\ read_u32_le(made.mem, p) = Sig(PAS_ZIP_CDH_SIG)
               /\ read_u16_le(made.mem, p + 10) = PAS_ZIP_METHOD_STORE
               /\ read_u32_le(made.mem, p + 20) = ToU32(Len(payload))
               /\ read_u32_le(made.mem, p + 24) = ToU32(Len(payload))
               /\ read_u16_le(made.mem, p + 28) = Len(name)
               /\ k = 1 => read_u32_le(made.mem, p + 42) = ToU32(0)
               /\ LET lho == Val(read_u32_le(made.mem, p + 42))
                  IN  /\ lho + LFH_SIZE + Len(name) <= made.ret
                      /\ read_u32_le(made.mem, lho) = Sig(PAS_ZIP_LFH_SIG)
                      /\ read_u16_le(made.mem, lho + 26) = Len(name)
                      /\ SubSeq(made.mem, lho + LFH_SIZE + 1,
                                lho + LFH_SIZE + Len(name)) = name
               /\ SubSeq(made.mem, p + CDH_SIZE + 1, p + CDH_SIZE + Len(name))
                    = name

(***************************************************************************)
(* C16 (as claimed): a successful create ends its output with a 22-byte    *)
(* end record: signature, entry count = file_count, cd_offset = the offset *)
(* at which the first central record begins, cd_size = the bytes emitted   *)
(* for the directory (cd_offset + cd_size is the offset of the end record  *)
(* itself), comment length 0.                                              *)
(***************************************************************************)
C16_Trailer ==
    CreatedOk =>
      LET at == made.ret - EOCD_SIZE
      IN  /\ at >= 0
          /\ read_u32_le(made.mem, at) = Sig(PAS_ZIP_EOCD_SIG)
          /\ read_u16_le(made.mem, at + 8) = Len(made.inp.filenames)
          /\ read_u16_le(made.mem, at + 10) = Len(made.inp.filenames)
          /\ read_u16_le(made.mem, at + 20) = 0
          /\ Val(read_u32_le(made.mem, at + 16)) = FirstSig(PAS_ZIP_CDH_SIG)
          /\ Val(read_u32_le(made.mem, at + 16))
               + Val(read_u32_le(made.mem, at + 12)) = at

(***************************************************************************)
(* C17 (as claimed): in every create call, successful or failing, no byte  *)
(* is stored at an index >= buffer_size; a call on a non-empty list that   *)
(* fails reports PAS_ZIP_E_NOSPACE, and every failing call returns 0.      *)
(***************************************************************************)
C17_CreateInBounds ==
    made.called =>
      /\ made.written <= made.buffer_size
      /\ made.status # PAS_ZIP_OK => made.ret = 0
      /\ (made.ret = 0 /\ made.args = "valid" /\ Len(made.inp.filenames) >= 1)
            => made.status = PAS_ZIP_E_NOSPACE

(***************************************************************************)
(* C18 (as claimed): an entry obtained from find is not changed by a later *)
(* find or list on the same archive: its name, sizes, method and           *)
(* local_header_offset, read through the returned pointer, are after the   *)
(* call what they were before it.                                          *)
(***************************************************************************)
C18_EntryIsValue ==
    [][ (file # NULL /\ FileOfHandle /\ last'.op \in { "find", "list" })
          => /\ pas_zip__current_file' = pas_zip__current_file
             /\ CStr(pas_zip__name_buf') = CStr(pas_zip__name_buf) ]_vars

(***************************************************************************)
(* C19 (as claimed): a reader call that fails (open or find returning      *)
(* NULL, list returning -1, extract reporting a status other than OK)      *)
(* leaves the handle, the last returned entry with the bytes of its name,  *)
(* and the destination as they were before the call.                       *)
(***************************************************************************)
C19_FailureFrame ==
    [][ (\/ last'.op \in { "open", "find" } /\ last'.ret = NULL
         \/ last'.op = "list" /\ last'.ret = -1
         \/ last'.op = "extract" /\ last'.status # PAS_ZIP_OK
              /\ ~last'.crashed)
          => /\ pas_zip__handle' = pas_zip__handle
             /\ pas_zip__current_file' = pas_zip__current_file
             /\ file # NULL
                  => CStr(pas_zip__name_buf') = CStr(pas_zip__name_buf)
             /\ last'.op = "extract"
                  => last'.mem = Fill(last'.buffer_size) ]_vars

(***************************************************************************)
(* C20 (as claimed): extract returns the number of bytes it wrote: with    *)
(* status OK the return value is the count of bytes copied into the        *)
(* destination and the entry's uncompressed_size; with any other status it *)
(* is 0.                                                                   *)
(***************************************************************************)
C20_ReturnsBytesWritten ==
    (last.op = "extract" /\ ~last.crashed) =>
      /\ last.status = PAS_ZIP_OK
           => /\ last.ret = last.copied
              /\ last.ret = Val(pas_zip__current_file.uncompressed_size)
      /\ last.status # PAS_ZIP_OK => last.ret = 0

(***************************************************************************)
(* C21: pas_http_get and pas_http_post return 0 exactly on success and a   *)
(* non-zero code otherwise, and the value returned is the value left       *)
(* behind the status pointer on every return path.  Success is: no NULL    *)
(* argument, a URL that parses, a non-empty buffer, no failure of resolve, *)
(* socket, connect or send, no receive timeout, a non-empty response that  *)
(* leaves the buffer short of full and that parses.                        *)
(***************************************************************************)
HttpArgsOk ==
    LET c == http.call
    IN  /\ ~c.url_null /\ ~c.buffer_null /\ ~c.out_null /\ ~c.status_null
        /\ ~(c.method = M_POST /\ c.body_len > 0 /\ c.body_null)

HttpSuccess ==
    /\ HttpArgsOk
    /\ pas_http_parse_url(http.call.url, PAS_HTTP_MAX_HOST,
                          PAS_HTTP_MAX_PATH).ret = 0
    /\ http.call.buffer_size > 0
    /\ http.fault \notin { "resolve", "socket", "connect", "format", "send",
                           "timeout" }
    /\ Len(http.buf) > 0
    /\ Len(http.buf) < http.call.buffer_size
    /\ pas_http_parse_response(http.buf, Len(http.buf), NoResponse).ret = 0

C21_ReturnIsStatus ==
    http.pc = "done" =>
      /\ http.ret = 0 <=> HttpSuccess
      /\ http.ret \in { PAS_HTTP_OK, PAS_HTTP_E_INVALID_URL,
                        PAS_HTTP_E_CONNECTION, PAS_HTTP_E_TIMEOUT,
                        PAS_HTTP_E_NOSPACE }
      /\ ~http.call.status_null => http.status = http.ret
      /\ http.call.status_null => http.status = STATUS_BEFORE

\* a response that parses but fills the buffer: NOSPACE returned and stored
C21_Witness ==
    /\ http.pc = "done"
    /\ Len(http.buf) >= http.call.buffer_size
    /\ pas_http_parse_response(http.buf, Len(http.buf), NoResponse).ret = 0
    /\ http.ret = PAS_HTTP_E_NOSPACE
    /\ http.status = PAS_HTTP_E_NOSPACE
    /\ http.out.status_code = 200

(***************************************************************************)
(* C22 (as claimed): every entry find returns with method Store has        *)
(* compressed_size = uncompressed_size, whatever archive open accepted.    *)
(***************************************************************************)
C22_StoreSizesAgree ==
    (last.op = "find" /\ last.ret # NULL
       /\ pas_zip__current_file.compression_method = PAS_ZIP_METHOD_STORE)
    => pas_zip__current_file.compressed_size
         = pas_zip__current_file.uncompressed_size

(***************************************************************************)
(* C23 (as claimed): whenever local_header_offset + 30, as a sum of        *)
(* integers, exceeds the archive size, extract fails with                  *)
(* PAS_ZIP_E_INVALID and reads no archive byte at an index >= the archive  *)
(* size, for every 32-bit local_header_offset.                             *)
(***************************************************************************)
C23_OffsetBeyondArchive ==
    (last.op = "extract"
       /\ GtW(pas_zip__current_file.local_header_offset,
              pas_zip__handle.size - LFH_SIZE))
    => /\ ~last.oob
       /\ ~last.crashed
       /\ last.ret = 0
       /\ last.status = PAS_ZIP_E_INVALID

(***************************************************************************)
(* C24: parsing the central record at the cursor fails when its signature  *)
(* is not the central one, when fewer than 46 bytes of the archive remain  *)
(* at the cursor, or when 46 + filename + extra + comment bytes run past   *)
(* the end of the archive; find then returns NULL and list returns -1      *)
(* after the callbacks of the records before it, and neither reads a byte  *)
(* of the archive at an index >= its size.                                 *)
(***************************************************************************)
\* the length the central record at cursor p declares for itself
EntryTotal(data, p) ==
    CDH_SIZE + read_u16_le(data, p + 28) + read_u16_le(data, p + 30)
             + read_u16_le(data, p + 32)

\* the three ways a central record at cursor p is malformed
TooShort(size, p) == size - p < CDH_SIZE
WrongSig(data, p) == read_u32_le(data, p) # Sig(PAS_ZIP_CDH_SIG)
RunsPast(data, size, p) == p + EntryTotal(data, p) > size

BadRecord(data, size, p) ==
    TooShort(size, p) \/ WrongSig(data, p) \/ RunsPast(data, size, p)

\* the walk of at most n records from cursor p: the number of records in
\* front of the first malformed one, and the cursor where the walk ended
RECURSIVE Walk(_, _, _)
Walk(h, n, p) ==
    IF n = 0 \/ p >= h.size THEN [good |-> 0, bad |-> FALSE, at |-> p]
    ELSE IF BadRecord(h.data, h.size, p) THEN [good |-> 0, bad |-> TRUE, at |-> p]
    ELSE LET w == Walk(h, n - 1, p + EntryTotal(h.data, p))
         IN  [w EXCEPT !.good = @ + 1]

HandleWalk == Walk(pas_zip__handle, pas_zip__handle.num_entries,
                   pas_zip__handle.cd_offset)

C24_MalformedRecord ==
    /\ (last.op = "list")
         => /\ last.reads <= pas_zip__handle.size
            /\ HandleWalk.bad => (last.ret = -1 /\ Len(last.calls) = HandleWalk.good)
    /\ (last.op = "find")
         => /\ last.reads <= pas_zip__handle.size
            /\ (HandleWalk.bad /\ last.name = N_missing) => last.ret = NULL

\* list has met a record of the central signature, with 46 bytes and more
\* left, whose declared length runs past the end of the archive, after a
\* callback for the record in front of it
C24_Witness ==
    /\ last.op = "list"
    /\ HandleWalk.bad
    /\ ~TooShort(pas_zip__handle.size, HandleWalk.at)
    /\ ~WrongSig(pas_zip__handle.data, HandleWalk.at)
    /\ HandleWalk.good = 1
    /\ last.ret = -1
    /\ Len(last.calls) = 1

\* a find for a missing name has met a cursor with fewer than 46 bytes left
C24_TooShortReached ==
    /\ last.op = "find" /\ last.name = N_missing
    /\ HandleWalk.bad
    /\ TooShort(pas_zip__handle.size, HandleWalk.at)

\* a walk has met a record of a wrong signature
C24_WrongSigReached ==
    /\ last.op \in {"find", "list"}
    /\ HandleWalk.bad
    /\ ~TooShort(pas_zip__handle.size, HandleWalk.at)
    /\ WrongSig(pas_zip__handle.data, HandleWalk.at)

(***************************************************************************)
(* C25: a central record whose filename is longer than the 511 bytes the   *)
(* name field holds is parsed to the first 511 bytes of the filename and a *)
(* terminator, and the cursor advances by the whole record, 46 + fn_len +  *)
(* extra_len + comment_len, so the record behind it is parsed where it     *)
(* lies.                                                                   *)
(***************************************************************************)
LongEntry(e) == Len(e.name) > NAME_BUF_SIZE - 1

C25_LongName ==
    (HandleIsTrue /\ WellFormedFx(OpenedFx))
    => LET es == OpenedFx.entries
       IN  /\ (last.op = "list")
                => \A k \in 1..Len(es) :
                     LongEntry(es[k])
                     => /\ Len(last.calls) >= k
                        /\ last.calls[k][1] = SubSeq(es[k].name, 1, NAME_BUF_SIZE - 1)
                        /\ k < Len(es)
                             => /\ Len(last.calls) >= k + 1
                                /\ last.calls[k + 1]
                                     = << ParsedName(es[k + 1]), ToU32(es[k + 1].usize) >>
           /\ (last.op = "find")
                => \A k \in 1..Len(es) :
                     LongEntry(es[k])
                     => /\ (last.name = SubSeq(es[k].name, 1, NAME_BUF_SIZE - 1))
                             => /\ last.ret # NULL
                                /\ FileIsEntry(es, k)
                                /\ pas_zip__name_buf = last.name
                                /\ Len(pas_zip__name_buf) = NAME_BUF_SIZE - 1
                        /\ (k < Len(es) /\ last.name = ParsedName(es[k + 1])
                              /\ \A j \in 1..k : ParsedName(es[j]) # last.name)
                             => (last.ret # NULL /\ FileIsEntry(es, k + 1))

\* find has returned the entry that lies behind a record with a filename
\* longer than the name field
C25_Witness ==
    /\ HandleIsTrue /\ WellFormedFx(OpenedFx)
    /\ last.op = "find"
    /\ last.ret # NULL
    /\ \E k \in 1..(Len(OpenedFx.entries) - 1) :
          /\ LongEntry(OpenedFx.entries[k])
          /\ last.name = ParsedName(OpenedFx.entries[k + 1])
          /\ FileIsEntry(OpenedFx.entries, k + 1)

\* find has returned the entry of the long filename, cut to the name field
C25_CutReached ==
    /\ HandleIsTrue /\ last.op = "find" /\ last.ret # NULL
    /\ Len(pas_zip__name_buf) = NAME_BUF_SIZE - 1

(***************************************************************************)
(* C26: the scan for the end record examines positions from size - 22      *)
(* downward and stops at the first that holds the signature 0x06054b50,    *)
(* the one closest to the end; the entry count is the u16 at position + 8  *)
(* and the directory offset the u32 at position + 16; no position below    *)
(* max(0, size - 65557) is examined, and for every size >= 22 the scan     *)
(* ends after at most 65536 positions.                                     *)
(***************************************************************************)
C26_EocdScanBounded ==
    (last.op = "open" /\ last.size >= EOCD_SIZE)
    => LET data == BytesOf(last.src)
           cands == EocdCandidates(data, last.size)
       IN  /\ last.low >= Max(0, last.size - EOCD_WINDOW)
           /\ last.low <= last.size - EOCD_SIZE
           /\ (last.size - EOCD_SIZE) - last.low + 1 <= 65536
           /\ IF cands = {}
              THEN last.at = -1 /\ last.ret = NULL
              ELSE /\ last.at \in cands
                   /\ \A g \in cands : g <= last.at
                   /\ last.low = last.at
           /\ last.ret # NULL
                => /\ pas_zip__handle.num_entries = read_u16_le(data, last.at + 8)
                   /\ ToU32(pas_zip__handle.cd_offset)
                        = read_u32_le(data, last.at + 16)

\* a buffer longer than the window has been opened on the signature at the
\* lowest position of the window, the 65536th the scan examined
C26_Witness ==
    /\ last.op = "open"
    /\ last.size > EOCD_WINDOW
    /\ last.ret # NULL
    /\ last.at = last.size - EOCD_WINDOW
    /\ (last.size - EOCD_SIZE) - last.low + 1 = 65536

\* a buffer whose only signature lies one position below the window has
\* been refused
C26_BelowWindowReached ==
    /\ last.op = "open"
    /\ last.size > EOCD_WINDOW
    /\ read_u32_le(BytesOf(last.src), last.size - EOCD_WINDOW - 1)
         = Sig(PAS_ZIP_EOCD_SIG)
    /\ last.ret = NULL
    /\ last.at = -1

(***************************************************************************)
(* C27 (as claimed): for every entry find returns from an archive open     *)
(* accepted, archives with inconsistent size fields included, and every    *)
(* destination, extract stores no more than buffer_size bytes into the     *)
(* destination.                                                            *)
(***************************************************************************)
C27_ExtractInBounds ==
    (last.op = "extract" /\ FileOfHandle /\ ~last.oob)
    => last.copied <= last.buffer_size

(***************************************************************************)
(* C28 (as claimed): extract reads the payload from the archive the entry  *)
(* was found in: after open(A), find in A, open(B), extract of the entry   *)
(* either fails or delivers A's payload of that entry, never bytes of B.   *)
(***************************************************************************)
\* the payload the archive the current entry was found in holds for it
FoundPayload ==
    LET es == Fixtures[fsrc.src.k].entries
        hits == { k \in 1..Len(es) : ParsedName(es[k]) = fsrc.query }
        k == CHOOSE h \in hits : \A g \in hits : h <= g
    IN  es[k].payload

C28_ExtractFromFoundArchive ==
    (last.op = "extract"
       /\ fsrc.src.kind = "fixture" /\ WellFormedFx(Fixtures[fsrc.src.k])
       /\ hsrc # fsrc.src)
    => /\ ~last.crashed
       /\ last.status = PAS_ZIP_OK
            => /\ last.ret = Len(FoundPayload)
               /\ SubSeq(last.mem, 1, last.ret) = FoundPayload

(***************************************************************************)
(* C29 (as claimed): list returns 0 only when the callback was invoked     *)
(* exactly num_entries times, the count open read from the end record;     *)
(* when fewer records than declared lie in front of the end of the         *)
(* archive it returns -1.                                                  *)
(***************************************************************************)
C29_ListCountsEntries ==
    (last.op = "list")
    => /\ last.ret = 0 => Len(last.calls) = pas_zip__handle.num_entries
       /\ HandleWalk.good < pas_zip__handle.num_entries => last.ret = -1

(***************************************************************************)
(* C30: a successful create returns the number of bytes it stored into the *)
(* destination, which is at most buffer_size, and create succeeds whenever *)
(* buffer_size is at least that number; with a NULL argument or with       *)
(* file_count <= 0 it returns 0 with PAS_ZIP_E_INVALID and stores nothing. *)
(***************************************************************************)
\* the create calls with valid arguments that succeed on the input of made
SucceedingCalls ==
    { c \in CreateCalls :
        c.inp = made.inp /\ c.args = "valid" /\ c.r.status = PAS_ZIP_OK }

C30_CreateReturn ==
    made.called
    => /\ made.status = PAS_ZIP_OK
            => /\ made.ret = made.written
               /\ made.ret <= made.buffer_size
               /\ made.ret > 0
       /\ made.args = "valid"
            => \A c \in SucceedingCalls :
                 made.buffer_size >= c.r.ret
                 => (made.status = PAS_ZIP_OK /\ made.ret = c.r.ret)
       /\ (made.args # "valid" \/ Len(made.inp.filenames) = 0)
            => /\ made.ret = 0
               /\ made.status = PAS_ZIP_E_INVALID
               /\ made.written = 0
               /\ made.mem = Fill(made.buffer_size)

\* two entries have been written into a destination they fill to its last
\* byte, and a destination one byte shorter is among the calls that fail
C30_Witness ==
    /\ made.called /\ made.args = "valid"
    /\ Len(made.inp.filenames) = 2
    /\ made.status = PAS_ZIP_OK
    /\ made.ret = made.buffer_size
    /\ \E c \in CreateCalls :
          /\ c.inp = made.inp /\ c.args = "valid"
          /\ c.cap = made.buffer_size - 1
          /\ c.r.status = PAS_ZIP_E_NOSPACE

\* create has been called with a NULL argument on a non-empty list
C30_NullReached ==
    /\ made.called /\ made.args = "null" /\ Len(made.inp.filenames) >= 1
    /\ made.status = PAS_ZIP_E_INVALID

=============================================================================
